---- MODULE Spec2Model ----
(***************************************************************************)
(* Model of the culprit finder: the CLI (cli.py main), the bisection       *)
(* engine and the commit tester (culprit_finder.py CulpritFinder), the     *)
(* state store (culprit_finder_state.py StatePersister) and the provider   *)
(* calls the tester makes (github_client.py GithubClient).                 *)
(*                                                                         *)
(* Python indices are kept as they are in the source (good_idx starts at   *)
(* -1, commits[i] is CommitAt(i)).  The provider is the environment: what  *)
(* a remote call returns is chosen nondeterministically at the step that   *)
(* makes the call.  The constructor arguments of CulpritFinder (use_cache, *)
(* retries, job, has_culprit_finder_workflow) range over all values, as in *)
(* the unit tests.  good_idx = bad_idx = 0 stands for "not assigned yet":  *)
(* inside the loop bad_idx - good_idx is always at least 1.                *)
(***************************************************************************)
EXTENDS Integers, Sequences, FiniteSets

\* ---------------------------------------------------------------- bounds
MaxCommits == 3
MaxRetries == 2
MaxPolls == 2
MaxRuns == 2
\* retries up to MaxRetries and the targets other than DefaultTarget are explored
\* for ranges up to this length
MaxTesterCommits == 1
\* ... and retries up to this for longer ranges and for the other targets
FewRetries == 1
\* a direct call of _get_target_job gets at most this many jobs
MaxJobs == 2
\* ... whose names have at most this many characters
MaxNameLen == 2
\* a direct call of _sanitize_component gets at most this many characters
MaxPathLen == 3
MaxUuids == 2

\* ------------------------------------------------------------- constants
Shas == <<"c0", "c1", "c2", "c3", "c4">>

NoErr == "None"
KeyboardInterrupt == "KeyboardInterrupt"
BranchTimeout == "ValueError:branch-not-created"
PollTimeout == "TimeoutError"
JobNotFound == "ValueError:job-not-found"
WrapperSkipped == "ValueError:wrapper-skipped"
ProviderError == "GithubException"
CleanupError == "GithubException:delete_branch"
FileNotFound == "FileNotFoundError"
AttributeError == "AttributeError"

FatalErrors == {BranchTimeout, PollTimeout, JobNotFound, WrapperSkipped, ProviderError}

Conclusions == {"success", "failure", "cancelled", "skipped"}

\* culprit_finder.py 19
CULPRIT_FINDER_WORKFLOW_NAME == "culprit_finder.yml"

\* culprit_finder.py 30-41: the repositories whose workflows get a dependency pin
PROJECT_CONFIG ==
  [r \in {"jax-ml/jax", "google-ml-infra/jax-fork"} |->
     [dependency_repo |-> "openxla/xla",
      input_name |-> "xla-commit",
      workflows |-> {"wheel_tests_continuous.yml", "build_artifacts.yml"}]]

\* the (repo, workflow_file) pairs the finder is built with
Targets ==
  {<<"owner/repo", "test_workflow.yml">>,
   <<"jax-ml/jax", "wheel_tests_continuous.yml">>,
   <<"jax-ml/jax", "test_workflow.yml">>,
   <<"owner/repo", "build_artifacts.yml">>}

\* the commits of the dependency repository ("None": no commit is returned)
DepCommits == {"d1"}

\* the arguments of trigger_workflow: workflow-to-debug and the dependency pin
NoInputs == [debug |-> "None", pin |-> "None"]

\* job names are sequences of characters
Chr == {"t", "/", " "}
JobName == <<"t">>
CallerJobName == <<"c", " ", "/", " ", "t">>
OtherJobName == <<"o">>

Job(n, c) == [name |-> n, conclusion |-> c]

\* the job lists get_run_jobs returns in the runs of the finder
JobLists ==
  {<<>>,
   <<Job(CallerJobName, "success"), Job(OtherJobName, "failure")>>,
   <<Job(CallerJobName, "failure"), Job(JobName, "success")>>,
   <<Job(OtherJobName, "failure"), Job(JobName, "failure")>>}

VARIABLES
  pc,              \* position of the CLI process
  runNo,           \* number of CLI invocations started so far
  file,            \* the state file of this identity: [exists, data]
  state,           \* the in-memory CulpritFinderState (shared by CLI and finder)
  result,          \* what run_bisection returned ("None" or a sha)
  err,             \* the exception in flight ("None" when there is none)
  commits,         \* what compare_commits returns
  use_cache, retries, job, has_wrapper,   \* CulpritFinder constructor arguments
  repo, workflow_file,                    \* CulpritFinder constructor arguments
  jobq,            \* a direct call of _get_target_job: its arguments and its result
  pathq,           \* a direct call of _sanitize_component or _get_base_dir
  store,           \* StatePersister objects used directly: identities, files, last call
  pair,            \* two run_bisection executions side by side, and the provider's verdicts
  overlap,         \* two _execute_test_with_branch executions and the provider's branches
  good_idx, bad_idx, mid_idx, is_good, is_cached,   \* locals of run_bisection
  attempt, run_conclusion, previous_run_id, run_id, polls,  \* locals of _test_commit
  latest_run,      \* local of _wait_for_workflow_completion: [id, status, conclusion]
  ret,             \* the value _test_commit is returning ("None": it has not returned)
  workflow_to_trigger, inputs,   \* locals of _test_commit
  branch_name,     \* the name of the ephemeral branch: [sha, uuid]
  run_target,      \* the requested job in the completed run: missing or its conclusion
  calls,           \* history: the provider calls of the current _test_commit
  branch,          \* the ephemeral branch of the current test: absent, hidden, visible
  created,         \* create_branch was called for the current test
  check_failed,    \* history: the check_branch_exists of the finally clause failed
  lastRunId,       \* id of the latest workflow_dispatch run on the branch (0: none)
  saves,           \* history: StatePersister.save calls made by _update_state in this run
  dispatches,      \* history: trigger_workflow calls made by the current _test_commit
  log,             \* history: the midpoints evaluated in this run, in order
  testCalls,       \* history: shas passed to _execute_test_with_branch in this run
  lookupCalls,     \* history: shas passed to _check_existing_run in this run
  snap,            \* history: state, saves and indices when the midpoint was selected
  startCache,      \* history: state.cache when run_bisection started
  testErr,         \* history: the error the test itself raised (before any cleanup)
  cliIn            \* history: what main got at its start (flag, answer, file found)

cfgVars ==
  <<commits, use_cache, retries, job, has_wrapper, repo, workflow_file, jobq, pathq, store,
    pair, overlap>>
cliVars == <<runNo, file, result>>
engVars == <<good_idx, bad_idx, mid_idx, is_good, is_cached>>
waitVars == <<polls, latest_run>>
attVars ==
  <<attempt, run_conclusion, previous_run_id, run_id, lastRunId, dispatches, ret,
    workflow_to_trigger, inputs, branch_name, run_target, calls>>
tstVars == <<attVars, waitVars>>
brVars == <<branch, created, check_failed>>
histVars == <<saves, log, testCalls, lookupCalls, snap, startCache>>
vars ==
  <<pc, err, state, cliVars, cfgVars, engVars, tstVars, brVars, histVars, testErr, cliIn>>

\* ------------------------------------------------------------ data model
EmptyCache == [s \in {} |-> "PASS"]

\* cli.py 171-179 / 184-192: the state of a new bisection
FreshState == [current_good |-> "", current_bad |-> "", cache |-> EmptyCache]

NoFile == [exists |-> FALSE, data |-> FreshState]

\* culprit_finder_state.py 93-102: save overwrites the file with the state
Save(s) == [exists |-> TRUE, data |-> s]

\* culprit_finder_state.py 104-122: load returns the fields of the file
Load(f) ==
  [current_good |-> f.data.current_good,
   current_bad |-> f.data.current_bad,
   cache |-> f.data.cache]

ExistsAlways(f) == TRUE

\* culprit_finder_state.py 85-91: exists
Exists(f) == f.exists

DeleteKeepsFile(f) == f

\* culprit_finder_state.py 124-127: delete unlinks the file (f is there)
Delete(f) == NoFile

CachePut(c, sha, v) == [s \in (DOMAIN c) \cup {sha} |-> IF s = sha THEN v ELSE c[s]]

\* commits[i] with the Python index i
CommitAt(i) == commits[i + 1]

IndexOf(sha) == CHOOSE i \in 0..(Len(commits) - 1) : CommitAt(i) = sha

\* ---------------------------------------------- pieces of run_bisection
NoCommitsNever(cs) == FALSE

\* culprit_finder.py 368: if not commits
NoCommits(cs) == Len(cs) = 0

LoopCondEarly(g, b) == b - g > 2

\* culprit_finder.py 376: while bad_idx - good_idx > 1
LoopCond(g, b) == b - g > 1

MidLinear(g, b) == g + 1

\* culprit_finder.py 377: mid_idx = (good_idx + bad_idx) // 2
Mid(g, b) == (g + b) \div 2

NeverCacheHit(sha, c) == FALSE

\* culprit_finder.py 382: if commit_sha in self._state["cache"]
IsCacheHit(sha, c) == sha \in DOMAIN c

CacheVerdictInverted(status) == IF status = "FAIL" THEN "True" ELSE "False"

\* culprit_finder.py 384: is_good = self._state["cache"][commit_sha] == "PASS"
CacheVerdict(status) == IF status = "PASS" THEN "True" ELSE "False"

AlwaysUpdate(cached) == TRUE

\* culprit_finder.py 400: if not is_cached
ShouldUpdate(cached) == ~cached

ReturnValueLast(g, b) == IF b = Len(commits) THEN "None" ELSE CommitAt(Len(commits) - 1)

\* culprit_finder.py 403-406: the value run_bisection returns
ReturnValue(g, b) == IF b = Len(commits) THEN "None" ELSE CommitAt(b)

UpdatedStateFreshCache(s, sha, good) ==
  IF good = "True"
    THEN [s EXCEPT !.current_good = sha, !.cache = CachePut(EmptyCache, sha, "PASS")]
    ELSE [s EXCEPT !.current_bad = sha, !.cache = CachePut(EmptyCache, sha, "FAIL")]

\* culprit_finder.py 344-349: the assignments of _update_state
UpdatedState(s, sha, good) ==
  IF good = "True"
    THEN [s EXCEPT !.current_good = sha, !.cache = CachePut(s.cache, sha, "PASS")]
    ELSE [s EXCEPT !.current_bad = sha, !.cache = CachePut(s.cache, sha, "FAIL")]

\* ------------------------------------------------ pieces of _test_commit
WorkflowToTriggerTarget(wrapper, wf) == wf

\* culprit_finder.py 200-203: workflow_to_trigger
WorkflowToTrigger(wrapper, wf) == IF wrapper THEN CULPRIT_FINDER_WORKFLOW_NAME ELSE wf

\* culprit_finder.py 204-205: inputs
InitialInputs(wrapper, wf) == [NoInputs EXCEPT !.debug = IF wrapper THEN wf ELSE "None"]

\* culprit_finder.py 221-223: the repository and the workflow are in the pin table
PinApplies(r, wf) == r \in DOMAIN PROJECT_CONFIG /\ wf \in PROJECT_CONFIG[r].workflows

\* culprit_finder.py 236-241: inputs[input_name] = dep_commit.sha when one is found
PinnedInputs(inp, dep) == IF dep = "None" THEN inp ELSE [inp EXCEPT !.pin = dep]

\* ------------------------------------------------ pieces of _get_target_job
\* the position of the first "/" of a name (0: there is none)
FirstSlash(n) ==
  IF \E i \in 1..Len(n) : n[i] = "/"
    THEN CHOOSE i \in 1..Len(n) : n[i] = "/" /\ \A j \in 1..(i - 1) : n[j] # "/"
    ELSE 0

\* culprit_finder.py 166: name.split("/", 1)[-1]
SplitLast(n) == IF FirstSlash(n) = 0 THEN n ELSE SubSeq(n, FirstSlash(n) + 1, Len(n))

RECURSIVE LStrip(_)
LStrip(n) == IF n # <<>> /\ Head(n) = " " THEN LStrip(Tail(n)) ELSE n

RECURSIVE RStrip(_)
RStrip(n) == IF n # <<>> /\ n[Len(n)] = " " THEN RStrip(SubSeq(n, 1, Len(n) - 1)) ELSE n

\* culprit_finder.py 166: .strip()
Strip(n) == RStrip(LStrip(n))

GetJobNameNoStrip(name, invoked) == IF invoked THEN SplitLast(name) ELSE name

\* culprit_finder.py 163-168: get_job_name
GetJobName(name, invoked) == IF invoked THEN Strip(SplitLast(name)) ELSE name

\* culprit_finder.py 170-172: the index of the first job whose name matches (0: none)
GetTargetJob(jobs, invoked, requested) ==
  LET hits == {i \in 1..Len(jobs) : GetJobName(jobs[i].name, invoked) = requested}
  IN IF hits = {} THEN 0 ELSE CHOOSE i \in hits : \A j \in hits : i <= j

\* culprit_finder.py 173-181: the conclusion of the requested job, or no such job
TargetOf(jobs, invoked) ==
  LET i == GetTargetJob(jobs, invoked, JobName)
  IN IF i = 0 THEN "missing" ELSE jobs[i].conclusion

\* get_latest_run found no run (None)
NoRun == [id |-> 0, status |-> "None", conclusion |-> "None"]

\* no branch name
NoBranch == [sha |-> "None", uuid |-> 0]

\* main has not chosen a state (or the choice is behind it)
NoCliIn == [clear_cache |-> FALSE, answer |-> "None", prompted |-> FALSE, file |-> NoFile]

\* what the operator may type at the resume prompt
Answers == {"y", "yes", "Y", "Yes", "n", "no", ""}

\* cli.py 167: .lower()
Lower(a) == IF a = "Y" THEN "y" ELSE IF a = "Yes" THEN "yes" ELSE a

IsYesAlways(a) == TRUE

\* cli.py 167-168: resume unless the lower-cased answer is not in ["y", "yes"]
IsYes(a) == Lower(a) \in {"y", "yes"}

NoQuery == [jobs |-> <<>>, invoked |-> FALSE, requested |-> <<>>, target |-> -1]

\* no direct call of _sanitize_component or _get_base_dir is made
NoPathQuery == [kind |-> "None", value |-> <<>>, done |-> FALSE, out |-> <<>>]

\* no pair of executions is run
NoPair == [start |-> <<>>, x |-> <<>>, memo |-> <<>>]

\* no two tests are run side by side
NoOverlap == [refs |-> {}, x |-> <<>>, uuids |-> 0, ops |-> {}]

\* no StatePersister is used directly
NoStore == [ids |-> <<>>, fs |-> <<>>, held |-> <<>>, last |-> <<>>]

\* ------------------------------------------------------------------ Init
DefaultTarget == <<"owner/repo", "test_workflow.yml">>

\* nothing has run yet
InitLocals ==
  /\ pc = "boot"
  /\ runNo = 0
  /\ file = NoFile
  /\ state = FreshState
  /\ result = "None"
  /\ err = NoErr
  /\ workflow_to_trigger = "None" /\ inputs = NoInputs
  /\ branch_name = NoBranch /\ run_target = "None" /\ calls = {}
  /\ good_idx = 0 /\ bad_idx = 0 /\ mid_idx = 0
  /\ is_good = "None" /\ is_cached = FALSE
  /\ attempt = 0 /\ run_conclusion = "None" /\ previous_run_id = 0 /\ run_id = 0
  /\ latest_run = NoRun
  /\ polls = 0 /\ lastRunId = 0 /\ dispatches = 0 /\ ret = "None"
  /\ branch = "absent" /\ created = FALSE /\ check_failed = FALSE
  /\ saves = 0 /\ log = <<>> /\ testCalls = {} /\ lookupCalls = {}
  /\ snap = [state |-> FreshState, saves |-> 0, good |-> 0, bad |-> 0]
  /\ startCache = EmptyCache
  /\ testErr = NoErr
  /\ cliIn = NoCliIn

Init ==
  /\ \E n \in 0..MaxCommits : commits = SubSeq(Shas, 1, n)
  /\ use_cache \in BOOLEAN
  /\ retries \in 0..MaxRetries
  /\ job \in BOOLEAN
  /\ has_wrapper \in BOOLEAN
  /\ \E t \in Targets :
       /\ Len(commits) > MaxTesterCommits => t = DefaultTarget /\ retries <= FewRetries
       /\ t # DefaultTarget => retries <= FewRetries
       /\ repo = t[1]
       /\ workflow_file = t[2]
  /\ jobq = NoQuery
  /\ pathq = NoPathQuery
  /\ pair = NoPair
  /\ overlap = NoOverlap
  /\ store = NoStore
  /\ InitLocals

ResetLocals ==
  /\ good_idx' = 0 /\ bad_idx' = 0 /\ mid_idx' = 0
  /\ is_good' = "None" /\ is_cached' = FALSE
  /\ attempt' = 0 /\ run_conclusion' = "None" /\ previous_run_id' = 0 /\ run_id' = 0
  /\ latest_run' = NoRun
  /\ polls' = 0 /\ lastRunId' = 0 /\ dispatches' = 0 /\ ret' = "None"
  /\ workflow_to_trigger' = "None" /\ inputs' = NoInputs
  /\ branch_name' = NoBranch /\ run_target' = "None" /\ calls' = {}
  /\ branch' = "absent" /\ created' = FALSE /\ check_failed' = FALSE
  /\ saves' = 0 /\ log' = <<>> /\ testCalls' = {} /\ lookupCalls' = {}
  /\ testErr' = NoErr

\* ------------------------------------------------------------------- CLI
\* cli.py 158-210: choose the state of this invocation and build the finder
CliStart(clear_cache, answer) ==
  /\ pc \in {"boot", "exit_ok", "exit_interrupted", "exit_error"}
  /\ runNo < MaxRuns
  /\ runNo' = runNo + 1
  /\ LET f1 == IF clear_cache /\ Exists(file) THEN Delete(file) ELSE file
         prompted == Exists(f1)
         resume == prompted /\ IsYes(answer)
         s == IF resume THEN Load(f1) ELSE FreshState
     IN /\ file' = IF prompted /\ ~resume THEN Delete(f1) ELSE f1
        /\ state' = s
        /\ cliIn' = [clear_cache |-> clear_cache, answer |-> answer,
                     prompted |-> prompted, file |-> file]
        /\ startCache' = s.cache
        /\ snap' = [state |-> s, saves |-> 0, good |-> 0, bad |-> 0]
  /\ result' = "None"
  /\ err' = NoErr
  /\ ResetLocals
  /\ pc' = "run_bisection"
  /\ UNCHANGED cfgVars

\* cli.py 213-222: run_bisection returned; report and delete the state (delete is
\* called without asking exists(): unlink raises when there is no file)
CliFinish ==
  /\ pc = "returned"
  /\ IF Exists(file)
       THEN /\ file' = Delete(file)
            /\ pc' = "exit_ok"
            /\ err' = NoErr
       ELSE /\ file' = file
            /\ pc' = "exit_error"
            /\ err' = FileNotFound
  /\ UNCHANGED <<runNo, result, state, cfgVars, cliIn, engVars, tstVars, brVars,
                 histVars, testErr>>

InterruptSavedStale(s) == Save([s EXCEPT !.cache = EmptyCache])

\* cli.py 223-226: except KeyboardInterrupt: save the state
InterruptSavedFile(s) == Save(s)

CliExcept ==
  /\ pc = "raised"
  /\ err = KeyboardInterrupt
  /\ file' = InterruptSavedFile(state)
  /\ pc' = "exit_interrupted"
  /\ UNCHANGED <<runNo, result, err, state, cfgVars, cliIn, engVars, tstVars, brVars,
                 histVars, testErr>>

\* cli.py 212-226: any other exception leaves main
CliCrash ==
  /\ pc = "raised"
  /\ err # KeyboardInterrupt
  /\ pc' = "exit_error"
  /\ UNCHANGED <<cliVars, err, state, cfgVars, cliIn, engVars, tstVars, brVars, histVars,
                 testErr>>

\* --------------------------------------------------------- run_bisection
\* culprit_finder.py 367-374
RunBisectionStart ==
  /\ pc = "run_bisection"
  /\ IF NoCommits(commits)
       THEN /\ result' = "None"
            /\ pc' = "returned"
            /\ UNCHANGED <<good_idx, bad_idx>>
       ELSE /\ good_idx' = -1
            /\ bad_idx' = Len(commits)
            /\ pc' = "loop"
            /\ UNCHANGED result
  /\ cliIn' = NoCliIn
  /\ UNCHANGED <<runNo, file, err, state, cfgVars, mid_idx, is_good, is_cached,
                 tstVars, brVars, histVars, testErr>>

ResolutionAlwaysLookup(verdict, uc) ==
  IF verdict # "None" THEN "narrow" ELSE "check_existing_run"

\* culprit_finder.py 382-391: where the verdict of the midpoint comes from next
Resolution(verdict, uc) ==
  IF verdict # "None" THEN "narrow"
  ELSE IF uc THEN "check_existing_run"
  ELSE "execute_test"

\* culprit_finder.py 376-391: pick the midpoint and consult the cache
SelectMidpoint ==
  /\ pc = "loop"
  /\ LoopCond(good_idx, bad_idx)
  /\ LET mid == Mid(good_idx, bad_idx)
         sha == CommitAt(mid)
         hit == IsCacheHit(sha, state.cache)
         verdict == IF hit THEN CacheVerdict(state.cache[sha]) ELSE "None"
     IN /\ mid_idx' = mid
        /\ is_cached' = hit
        /\ is_good' = verdict
        /\ pc' = Resolution(verdict, use_cache)
  /\ snap' = [state |-> state, saves |-> saves, good |-> good_idx, bad |-> bad_idx]
  /\ UNCHANGED <<cliVars, err, state, cfgVars, cliIn, good_idx, bad_idx, tstVars, brVars,
                 saves, log, testCalls, lookupCalls, startCache, testErr>>

\* culprit_finder.py 376, 403-406: the loop ends and run_bisection returns
LoopExit ==
  /\ pc = "loop"
  /\ ~LoopCond(good_idx, bad_idx)
  /\ result' = ReturnValue(good_idx, bad_idx)
  /\ pc' = "returned"
  /\ UNCHANGED <<runNo, file, err, state, cfgVars, cliIn, engVars, tstVars, brVars,
                 histVars, testErr>>

\* ------------------------------------------------------ raising an error
\* positions inside the try block of _execute_test_with_branch
\* (culprit_finder.py 329-330: the call of _test_commit)
TryPcs == {"test_commit", "test_attempt", "poll", "get_jobs"}

\* positions of run_bisection and its callees (a KeyboardInterrupt can arrive)
RunningPcs ==
  {"run_bisection", "loop", "check_existing_run", "execute_test", "create_branch",
   "wait_for_branch", "test_commit", "test_attempt", "poll", "get_jobs", "finally",
   "delete_branch", "narrow", "update_state", "save"}

\* positions at which a provider call is made that lets a provider error through
RemoteCallPcs ==
  {"run_bisection", "check_existing_run", "create_branch", "test_attempt", "poll",
   "get_jobs"}

RaiseTargetRetried(p) ==
  IF p \in {"poll", "get_jobs"} THEN "test_attempt"
  ELSE IF p \in TryPcs THEN "finally"
  ELSE "raised"

\* culprit_finder.py 329-334: an exception raised inside the try block runs the
\* finally clause first; run_bisection (376-401) has no handler at all
RaiseTarget(p) == IF p \in TryPcs THEN "finally" ELSE "raised"

AfterFinallySwallow(pending) == "narrow"

\* culprit_finder.py 329-334: leaving the finally clause without a new exception
\* re-raises the pending one, or returns the verdict to line 391
AfterFinally(pending) == IF pending = NoErr THEN "narrow" ELSE "raised"

Raise(e) ==
  /\ err' = e
  /\ pc' = RaiseTarget(pc)
  /\ testErr' = IF pc \in TryPcs THEN e ELSE testErr

\* the frames of _execute_test_with_branch and _test_commit are gone: their locals
\* (and what was recorded about the calls of that test) are dropped
DropTestLocals ==
  /\ attempt' = 0 /\ run_conclusion' = "None" /\ previous_run_id' = 0 /\ run_id' = 0
  /\ latest_run' = NoRun
  /\ polls' = 0 /\ lastRunId' = 0 /\ dispatches' = 0 /\ ret' = "None"
  /\ workflow_to_trigger' = "None" /\ inputs' = NoInputs
  /\ branch_name' = NoBranch /\ run_target' = "None" /\ calls' = {}

\* the frame of _wait_for_workflow_completion is gone
DropWaitLocals == polls' = 0 /\ latest_run' = NoRun

\* an exception unwinds the frames between the raise and the handler
Unwind ==
  IF pc' = "raised" THEN DropTestLocals
  ELSE IF pc = "poll" THEN DropWaitLocals /\ UNCHANGED attVars
  ELSE UNCHANGED tstVars

\* the operator presses CTRL+C while run_bisection is running
Interrupt ==
  /\ pc \in RunningPcs
  /\ Raise(KeyboardInterrupt)
  /\ Unwind
  /\ cliIn' = NoCliIn
  /\ UNCHANGED <<cliVars, state, cfgVars, engVars, brVars, histVars>>

\* ---------------------------------------------------- _check_existing_run
ExistingRunVerdictRunOnly(conclusion, target) ==
  IF conclusion = "success" THEN "True" ELSE "False"

\* culprit_finder.py 286-309; found, conclusion and jobs are the provider's answers
ExistingRunVerdict(conclusion, target) ==
  IF job THEN (IF target = "success" THEN "True" ELSE "False")
  ELSE (IF conclusion = "success" THEN "True" ELSE "False")

\* get_run_jobs is only called when a job is requested
RunJobLists == IF job THEN JobLists ELSE {<<>>}

CheckExistingRun(found, conclusion, jobs) ==
  /\ pc = "check_existing_run"
  /\ lookupCalls' = lookupCalls \cup {CommitAt(mid_idx)}
  /\ IF ~found
       THEN /\ pc' = "execute_test"
            /\ UNCHANGED <<is_good, err, testErr, run_conclusion, run_target>>
       ELSE /\ run_conclusion' = conclusion
            /\ run_target' = IF job THEN TargetOf(jobs, FALSE) ELSE "None"
            /\ IF run_target' = "missing"
                 THEN /\ Raise(JobNotFound)
                      /\ UNCHANGED is_good
                 ELSE /\ is_good' = ExistingRunVerdict(conclusion, run_target')
                      /\ pc' = "narrow"
                      /\ UNCHANGED <<err, testErr>>
  /\ UNCHANGED <<cliVars, state, cfgVars, cliIn, good_idx, bad_idx, mid_idx, is_cached,
                 attempt, previous_run_id, run_id, latest_run, polls, lastRunId,
                 dispatches, ret, workflow_to_trigger, inputs, branch_name, calls,
                 brVars, saves, log, testCalls, snap, startCache>>

\* ---------------------------------------------- _execute_test_with_branch
\* culprit_finder.py 321-324: a new branch name (the sha plus a uuid4 that no other
\* test has: a sha is tested once in an invocation); exists is what
\* check_branch_exists answers for it, and create_branch is skipped when it is True
BranchNameShaOnly(sha, uuid) == [sha |-> sha, uuid |-> 0]

BranchName(sha, uuid) == [sha |-> sha, uuid |-> uuid]

ExecuteTestStart(exists) ==
  /\ pc = "execute_test"
  /\ testCalls' = testCalls \cup {CommitAt(mid_idx)}
  /\ branch_name' = BranchName(CommitAt(mid_idx), runNo)
  /\ branch' = IF exists THEN "visible" ELSE "absent"
  /\ created' = FALSE
  /\ check_failed' = FALSE
  /\ attempt' = 0 /\ run_conclusion' = "None" /\ previous_run_id' = 0 /\ run_id' = 0
  /\ latest_run' = NoRun
  /\ polls' = 0 /\ lastRunId' = 0 /\ dispatches' = 0 /\ ret' = "None"
  /\ workflow_to_trigger' = "None" /\ inputs' = NoInputs
  /\ run_target' = "None" /\ calls' = {}
  /\ pc' = IF exists THEN "test_commit" ELSE "create_branch"
  /\ UNCHANGED <<cliVars, err, state, cfgVars, cliIn, engVars, saves, log, lookupCalls,
                 snap, startCache, testErr>>

CreateBranchNoWait ==
  /\ pc = "create_branch"
  /\ branch' = "hidden"
  /\ created' = TRUE
  /\ check_failed' = FALSE
  /\ pc' = "test_commit"
  /\ UNCHANGED <<cliVars, err, state, cfgVars, cliIn, engVars, tstVars, histVars, testErr>>

\* culprit_finder.py 325 / github_client.py 119-127
CreateBranch ==
  /\ pc = "create_branch"
  /\ branch' = "hidden"
  /\ created' = TRUE
  /\ check_failed' = FALSE
  /\ pc' = "wait_for_branch"
  /\ UNCHANGED <<cliVars, err, state, cfgVars, cliIn, engVars, tstVars, histVars, testErr>>

\* culprit_finder.py 327 / github_client.py 129-147: the branch is seen in time
WaitForBranchOk ==
  /\ pc = "wait_for_branch"
  /\ branch' = "visible"
  /\ pc' = "test_commit"
  /\ UNCHANGED <<cliVars, err, state, cfgVars, cliIn, engVars, tstVars, created,
                 check_failed,
                 histVars, testErr>>

\* github_client.py 141-149: the branch is not seen within the timeout
WaitForBranchTimeout ==
  /\ pc = "wait_for_branch"
  /\ Raise(BranchTimeout)
  /\ UNCHANGED <<cliVars, state, cfgVars, cliIn, engVars, tstVars, brVars, histVars>>

\* ----------------------------------------------------------- _test_commit
\* a provider call of _test_commit, as the provider sees it
Call(op, target, br, inp, att, answer) ==
  [op |-> op, target |-> target, branch |-> br, inputs |-> inp, attempt |-> att,
   answer |-> answer]

\* culprit_finder.py 198-213: the workflow to dispatch and its inputs
TestCommitStart ==
  /\ pc = "test_commit"
  /\ workflow_to_trigger' = WorkflowToTrigger(has_wrapper, workflow_file)
  /\ inputs' = InitialInputs(has_wrapper, workflow_file)
  /\ pc' = "test_attempt"
  /\ UNCHANGED <<cliVars, err, state, cfgVars, cliIn, engVars, attempt, run_conclusion,
                 previous_run_id, run_id, latest_run, polls, lastRunId, dispatches, ret,
                 branch_name, run_target, calls, brVars, histVars, testErr>>

MaxAttemptsOneMore(r) == r + 2

\* culprit_finder.py 214: for attempt in range(self._retries + 1)
MaxAttempts(r) == r + 1

\* culprit_finder.py 214-247: record the previous run, look the dependency commit
\* up when the pin table applies, and dispatch.  dep is what get_last_commit_before
\* answers on this attempt ("None" when the lookup is not made); inputs is the
\* dictionary made before the loop, so it keeps what an earlier attempt put in it
AttemptStart(dep) ==
  /\ pc = "test_attempt"
  /\ attempt < MaxAttempts(retries)
  /\ PinApplies(repo, workflow_file) \/ dep = "None"
  /\ previous_run_id' = lastRunId
  /\ inputs' = IF PinApplies(repo, workflow_file) THEN PinnedInputs(inputs, dep) ELSE inputs
  /\ calls' = calls
       \cup {Call("previous_run", workflow_to_trigger, branch_name, NoInputs, attempt, "None")}
       \cup (IF PinApplies(repo, workflow_file)
               THEN {Call("get_last_commit_before", PROJECT_CONFIG[repo].dependency_repo,
                          NoBranch, NoInputs, attempt, dep)}
               ELSE {})
       \cup {Call("trigger_workflow", workflow_to_trigger, branch_name, inputs', attempt,
                  "None")}
  /\ dispatches' = dispatches + 1
  /\ polls' = 0
  /\ pc' = "poll"
  /\ UNCHANGED <<cliVars, err, state, cfgVars, cliIn, engVars, attempt, run_conclusion,
                 run_id, latest_run, lastRunId, ret, workflow_to_trigger, branch_name,
                 run_target, brVars, histVars, testErr>>

\* culprit_finder.py 280-284: the attempts are used up
AttemptsExhausted ==
  /\ pc = "test_attempt"
  /\ ~(attempt < MaxAttempts(retries))
  /\ ret' = IF run_conclusion = "success" THEN "True" ELSE "False"
  /\ pc' = "finally"
  /\ UNCHANGED <<cliVars, err, state, cfgVars, cliIn, engVars, attempt, run_conclusion,
                 previous_run_id, run_id, latest_run, polls, lastRunId, dispatches,
                 workflow_to_trigger, inputs, branch_name, run_target, calls, brVars,
                 histVars, testErr>>

\* a provider call fails (network, authentication, API error); the loop head makes
\* a provider call only when an attempt is left
ProviderFails ==
  /\ pc \in RemoteCallPcs
  /\ pc = "test_attempt" => attempt < MaxAttempts(retries)
  /\ Raise(ProviderError)
  /\ Unwind
  /\ cliIn' = NoCliIn
  /\ UNCHANGED <<cliVars, state, cfgVars, engVars, brVars, histVars>>

\* culprit_finder.py 113-118: one get_latest_run of the polling loop
PollCall == Call("poll", workflow_to_trigger, branch_name, NoInputs, attempt, "None")

\* what get_latest_run can answer to a poll: no run on the branch yet, the run that
\* was the latest before the dispatch, or the dispatched run, in any status
Run(id, status, conclusion) == [id |-> id, status |-> status, conclusion |-> conclusion]

LatestRuns ==
  (IF lastRunId = 0 THEN {NoRun} ELSE {Run(lastRunId, "completed", run_conclusion)})
    \cup {Run(lastRunId + 1, "in_progress", "None")}
    \cup {Run(lastRunId + 1, "completed", c) : c \in Conclusions}

WaitDecisionAnyCompleted(latest, previous) ==
  IF latest = NoRun THEN "wait"
  ELSE IF latest.status = "completed" THEN "return"
  ELSE "wait"

\* culprit_finder.py 118-134: what one iteration of the polling loop does with the
\* latest run (previous = 0 stands for previous_run_id = None)
WaitDecision(latest, previous) ==
  IF latest = NoRun THEN "wait"
  ELSE IF previous # 0 /\ latest.id = previous THEN "wait"
  ELSE IF latest.status = "completed" THEN "return"
  ELSE "wait"

\* culprit_finder.py 112-143: an iteration that sleeps and polls again
PollWait(latest) ==
  /\ pc = "poll"
  /\ polls < MaxPolls
  /\ WaitDecision(latest, previous_run_id) = "wait"
  /\ polls' = polls + 1
  /\ latest_run' = latest
  /\ calls' = calls \cup {PollCall}
  /\ UNCHANGED <<pc, cliVars, err, state, cfgVars, cliIn, engVars, attempt, run_conclusion,
                 previous_run_id, run_id, lastRunId, dispatches, ret, workflow_to_trigger,
                 inputs, branch_name, run_target, brVars, histVars, testErr>>

\* culprit_finder.py 144: raise TimeoutError
PollTimesOut ==
  /\ pc = "poll"
  /\ ~(polls < MaxPolls)
  /\ Raise(PollTimeout)
  /\ Unwind
  /\ UNCHANGED <<cliVars, state, cfgVars, cliIn, engVars, brVars, histVars>>

RunOutcomeSkipAlwaysFatal(c, wrapper, jobRequested) ==
  IF c = "success" THEN "return_true"
  ELSE IF c = "skipped" THEN "raise"
  ELSE IF jobRequested THEN "get_jobs"
  ELSE "retry"

RunOutcomeSkipRetried(c, wrapper, jobRequested) ==
  IF c = "success" THEN "return_true"
  ELSE IF jobRequested THEN "get_jobs"
  ELSE "retry"

RunOutcomeIgnoresJob(c, wrapper, jobRequested) ==
  IF c = "success" THEN "return_true"
  ELSE IF c = "skipped" /\ wrapper THEN "raise"
  ELSE "retry"

\* culprit_finder.py 256-272: what _test_commit does with a completed run
RunOutcome(c, wrapper, jobRequested) ==
  IF c = "success" THEN "return_true"
  ELSE IF c = "skipped" /\ wrapper THEN "raise"
  ELSE IF jobRequested THEN "get_jobs"
  ELSE "retry"

\* culprit_finder.py 133-134, 256-272: the iteration returns the latest run, and
\* what _test_commit does with it; jobs are the jobs of that run
PollCompleted(latest, jobs) ==
  /\ pc = "poll"
  /\ polls < MaxPolls
  /\ WaitDecision(latest, previous_run_id) = "return"
  /\ calls' = calls \cup {PollCall}
  /\ latest_run' = latest
  /\ polls' = 0
  /\ lastRunId' = latest.id
  /\ run_id' = latest.id
  /\ run_conclusion' = latest.conclusion
  /\ run_target' = IF job THEN TargetOf(jobs, has_wrapper) ELSE "None"
  /\ LET o == RunOutcome(latest.conclusion, has_wrapper, job)
     IN IF o = "return_true"
          THEN /\ ret' = "True"
               /\ pc' = "finally"
               /\ UNCHANGED <<attempt, err, testErr>>
          ELSE IF o = "raise"
            THEN /\ Raise(WrapperSkipped)
                 /\ UNCHANGED <<attempt, ret>>
            ELSE IF o = "get_jobs"
              THEN /\ pc' = "get_jobs"
                   /\ UNCHANGED <<attempt, ret, err, testErr>>
              ELSE /\ attempt' = attempt + 1
                   /\ pc' = "test_attempt"
                   /\ UNCHANGED <<ret, err, testErr>>
  /\ UNCHANGED <<cliVars, state, cfgVars, cliIn, engVars, previous_run_id,
                 dispatches, workflow_to_trigger, inputs, branch_name, brVars, histVars>>

\* culprit_finder.py 266-272: get_run_jobs and the conclusion of the requested job
GetJobs ==
  /\ pc = "get_jobs"
  /\ IF run_target = "missing"
       THEN /\ Raise(JobNotFound)
            /\ UNCHANGED <<attempt, ret>>
       ELSE IF run_target = "success"
         THEN /\ ret' = "True"
              /\ pc' = "finally"
              /\ UNCHANGED <<attempt, err, testErr>>
         ELSE /\ attempt' = attempt + 1
              /\ pc' = "test_attempt"
              /\ UNCHANGED <<ret, err, testErr>>
  /\ UNCHANGED <<cliVars, state, cfgVars, cliIn, engVars, run_conclusion,
                 previous_run_id, run_id, latest_run, polls, lastRunId, dispatches,
                 workflow_to_trigger, inputs, branch_name, run_target, calls, brVars,
                 histVars>>

\* --------------------------------------------------- the finally clause
FinallyCheckNoDelete(apiFails) ==
  /\ pc = "finally"
  /\ pc' = AfterFinally(err)
  /\ check_failed' = (branch = "visible" /\ apiFails)
  /\ is_good' = IF pc' = "narrow" THEN ret ELSE is_good
  /\ IF pc' = "raised" THEN DropTestLocals ELSE UNCHANGED tstVars
  /\ UNCHANGED <<cliVars, err, state, cfgVars, cliIn, good_idx, bad_idx, mid_idx, is_cached,
                 branch, created, histVars, testErr>>

\* culprit_finder.py 332 / github_client.py 103-117: check_branch_exists returns
\* False for a branch that is there when the API call fails (apiFails)
FinallyCheck(apiFails) ==
  /\ pc = "finally"
  /\ pc' = IF branch = "visible" /\ ~apiFails THEN "delete_branch" ELSE AfterFinally(err)
  /\ check_failed' = (branch = "visible" /\ apiFails)
  /\ is_good' = IF pc' = "narrow" THEN ret ELSE is_good
  /\ IF pc' = "raised" THEN DropTestLocals ELSE UNCHANGED tstVars
  /\ UNCHANGED <<cliVars, err, state, cfgVars, cliIn, good_idx, bad_idx, mid_idx, is_cached,
                 branch, created, histVars, testErr>>

\* culprit_finder.py 334 / github_client.py 151-159
DeleteBranchOk ==
  /\ pc = "delete_branch"
  /\ branch' = "absent"
  /\ pc' = AfterFinally(err)
  /\ is_good' = IF pc' = "narrow" THEN ret ELSE is_good
  /\ IF pc' = "raised" THEN DropTestLocals ELSE UNCHANGED tstVars
  /\ UNCHANGED <<cliVars, err, state, cfgVars, cliIn, good_idx, bad_idx, mid_idx, is_cached,
                 created, check_failed, histVars, testErr>>

\* github_client.py 158-159: get_git_ref or ref.delete raises
DeleteBranchFails ==
  /\ pc = "delete_branch"
  /\ err' = CleanupError
  /\ pc' = "raised"
  /\ DropTestLocals
  /\ UNCHANGED <<cliVars, state, cfgVars, cliIn, engVars, brVars, histVars, testErr>>

\* ------------------------------------------- narrowing and _update_state
Source == IF is_cached THEN "cache"
          ELSE IF CommitAt(mid_idx) \in testCalls THEN "test" ELSE "existing"

NarrowInverted ==
  /\ pc = "narrow"
  /\ IF is_good = "True"
       THEN bad_idx' = mid_idx /\ UNCHANGED good_idx
       ELSE good_idx' = mid_idx /\ UNCHANGED bad_idx
  /\ log' = Append(log, [sha |-> CommitAt(mid_idx), src |-> Source, good |-> is_good])
  /\ pc' = IF ShouldUpdate(is_cached) THEN "update_state" ELSE "loop"
  /\ DropTestLocals
  /\ UNCHANGED <<cliVars, err, state, cfgVars, cliIn, mid_idx, is_good, is_cached,
                 brVars, saves, testCalls, lookupCalls, snap, startCache, testErr>>

\* culprit_finder.py 393-400
Narrow ==
  /\ pc = "narrow"
  /\ IF is_good = "True"
       THEN good_idx' = mid_idx /\ UNCHANGED bad_idx
       ELSE bad_idx' = mid_idx /\ UNCHANGED good_idx
  /\ log' = Append(log, [sha |-> CommitAt(mid_idx), src |-> Source, good |-> is_good])
  /\ pc' = IF ShouldUpdate(is_cached) THEN "update_state" ELSE "loop"
  /\ DropTestLocals
  /\ UNCHANGED <<cliVars, err, state, cfgVars, cliIn, mid_idx, is_good, is_cached,
                 brVars, saves, testCalls, lookupCalls, snap, startCache, testErr>>

\* culprit_finder.py 344-349
UpdateState ==
  /\ pc = "update_state"
  /\ state' = UpdatedState(state, CommitAt(mid_idx), is_good)
  /\ pc' = "save"
  /\ UNCHANGED <<cliVars, err, cfgVars, cliIn, engVars, tstVars, brVars, histVars, testErr>>

SaveStateStale ==
  /\ pc = "save"
  /\ file' = Save(snap.state)
  /\ saves' = saves + 1
  /\ pc' = "loop"
  /\ UNCHANGED <<runNo, result, err, state, cfgVars, cliIn, engVars, tstVars, brVars, log,
                 testCalls, lookupCalls, snap, startCache, testErr>>

\* culprit_finder.py 350
SaveState ==
  /\ pc = "save"
  /\ file' = Save(state)
  /\ saves' = saves + 1
  /\ pc' = "loop"
  /\ UNCHANGED <<runNo, result, err, state, cfgVars, cliIn, engVars, tstVars, brVars, log,
                 testCalls, lookupCalls, snap, startCache, testErr>>

Next ==
  \/ \E c \in BOOLEAN, a \in Answers : CliStart(c, a)
  \/ CliFinish
  \/ CliExcept
  \/ CliCrash
  \/ RunBisectionStart
  \/ SelectMidpoint
  \/ LoopExit
  \/ ProviderFails
  \/ Interrupt
  \/ CheckExistingRun(FALSE, "None", <<>>)
  \/ \E c \in Conclusions, js \in RunJobLists : CheckExistingRun(TRUE, c, js)
  \/ \E e \in BOOLEAN : ExecuteTestStart(e)
  \/ CreateBranch
  \/ WaitForBranchOk
  \/ WaitForBranchTimeout
  \/ TestCommitStart
  \/ \E d \in DepCommits \cup {"None"} : AttemptStart(d)
  \/ AttemptsExhausted
  \/ \E r \in LatestRuns : PollWait(r)
  \/ PollTimesOut
  \/ \E r \in LatestRuns, js \in RunJobLists : PollCompleted(r, js)
  \/ GetJobs
  \/ \E f \in BOOLEAN : FinallyCheck(f)
  \/ DeleteBranchOk
  \/ DeleteBranchFails
  \/ Narrow
  \/ UpdateState
  \/ SaveState

Spec == Init /\ [][Next]_vars

\* ------------------------------------------- _get_target_job called directly
\* the names of at most k characters
Names(k) == UNION {[1..n -> Chr] : n \in 0..k}

\* the job lists of at most k jobs (only the names matter to _get_target_job)
NamedJobLists(k) == UNION {[1..n -> {Job(nm, "success") : nm \in Names(MaxNameLen)}] : n \in 0..k}

\* the requested job names
RequestedNames == {JobName, <<" ", "t">>, <<"/", "t">>}

\* a finder with a job name, and the arguments of one call of _get_target_job
InitJobs ==
  /\ commits = <<>>
  /\ use_cache = FALSE
  /\ retries = 0
  /\ job = TRUE
  /\ has_wrapper = FALSE
  /\ repo = DefaultTarget[1]
  /\ workflow_file = DefaultTarget[2]
  /\ \E js \in NamedJobLists(MaxJobs), w \in BOOLEAN, r \in RequestedNames :
       jobq = [jobs |-> js, invoked |-> w, requested |-> r, target |-> -1]
  /\ pathq = NoPathQuery
  /\ pair = NoPair
  /\ overlap = NoOverlap
  /\ store = NoStore
  /\ InitLocals

\* culprit_finder.py 146-181: the call; target 0 stands for the ValueError
GetTargetJobCall ==
  /\ jobq.target = -1
  /\ jobq' = [jobq EXCEPT !.target = GetTargetJob(jobq.jobs, jobq.invoked, jobq.requested)]
  /\ UNCHANGED <<pc, err, state, cliVars, commits, use_cache, retries, job, has_wrapper,
                 repo, workflow_file, pair, overlap, pathq, store, engVars, tstVars, brVars, histVars,
                 testErr, cliIn>>

NextJobs == GetTargetJobCall

SpecJobs == InitJobs /\ [][NextJobs]_vars

\* ------------------------------------------- the finder on DryRunGithubClient
\* github_client.py 381-388, 462-464: the jobs of a mock run
DryRunJobs == IF job THEN <<Job(JobName, "success")>> ELSE <<>>

\* culprit_finder.py 214-247 on the dry-run client: get_latest_run fabricates a new
\* run for every workflow_dispatch query (github_client.py 367-379, 403-416), so the
\* previous run is a run of its own; the client has no get_commit, which the pin
\* block calls first (culprit_finder.py 226); trigger_workflow only logs
DryRunAttemptStart ==
  /\ pc = "test_attempt"
  /\ attempt < MaxAttempts(retries)
  /\ previous_run_id' = lastRunId + 1
  /\ lastRunId' = lastRunId + 1
  /\ IF PinApplies(repo, workflow_file)
       THEN /\ Raise(AttributeError)
            /\ calls' = calls
                 \cup {Call("previous_run", workflow_to_trigger, branch_name, NoInputs,
                            attempt, "None")}
            /\ UNCHANGED <<dispatches, polls>>
       ELSE /\ calls' = calls
                 \cup {Call("previous_run", workflow_to_trigger, branch_name, NoInputs,
                            attempt, "None"),
                       Call("trigger_workflow", workflow_to_trigger, branch_name, inputs,
                            attempt, "None")}
            /\ dispatches' = dispatches + 1
            /\ polls' = 0
            /\ pc' = "poll"
            /\ UNCHANGED <<err, testErr>>
  /\ UNCHANGED <<cliVars, state, cfgVars, cliIn, engVars, attempt, run_conclusion,
                 run_id, latest_run, ret, workflow_to_trigger, inputs, branch_name,
                 run_target, brVars, histVars>>

\* compare_commits is forwarded to the real client (github_client.py 390-391)
DryRunCompareFails ==
  /\ pc = "run_bisection"
  /\ ProviderFails

NextDryRun ==
  \/ \E c \in BOOLEAN, a \in Answers : CliStart(c, a)
  \/ CliFinish
  \/ CliExcept
  \/ CliCrash
  \/ RunBisectionStart
  \/ SelectMidpoint
  \/ LoopExit
  \/ DryRunCompareFails
  \/ Interrupt
  \/ CheckExistingRun(FALSE, "None", <<>>)
  \/ ExecuteTestStart(FALSE)
  \/ CreateBranch
  \/ WaitForBranchOk
  \/ TestCommitStart
  \/ DryRunAttemptStart
  \/ PollCompleted(Run(lastRunId + 1, "completed", "success"), DryRunJobs)
  \/ FinallyCheck(FALSE)
  \/ DeleteBranchOk
  \/ Narrow
  \/ UpdateState
  \/ SaveState

SpecDryRun == Init /\ [][NextDryRun]_vars

\* ------------------------------------------- _sanitize_component, _get_base_dir
\* strings are sequences of characters; the characters the sanitizer treats apart,
\* and a letter
PathChr == {".", "/", "\\", " ", ":", "|", "a"}

\* the strings of at most k characters
PathStrings(k) == UNION {[1..n -> PathChr] : n \in 0..k}

RECURSIVE ReplaceDotDot(_)
\* str.replace("..", "."): the occurrences are found from the left and do not
\* overlap, and the result is not scanned again
ReplaceDotDot(v) ==
  IF Len(v) >= 2 /\ v[1] = "." /\ v[2] = "."
    THEN <<".">> \o ReplaceDotDot(SubSeq(v, 3, Len(v)))
    ELSE IF v = <<>> THEN <<>>
    ELSE <<Head(v)>> \o ReplaceDotDot(Tail(v))

\* str.replace(c, "_") for the one-character strings of line 46-50
ReplaceChars(v) ==
  [i \in 1..Len(v) |-> IF v[i] \in {"\\", "/", " ", ":", "|"} THEN "_" ELSE v[i]]

\* culprit_finder_state.py 25-51
SanitizeComponent(value) == ReplaceChars(ReplaceDotDot(Strip(value)))

RECURSIVE SplitSlash(_, _)
\* str.split("/"): cur is the part being read
SplitSlash(v, cur) ==
  IF v = <<>> THEN <<cur>>
  ELSE IF Head(v) = "/" THEN <<cur>> \o SplitSlash(Tail(v), <<>>)
  ELSE SplitSlash(Tail(v), Append(cur, Head(v)))

RECURSIVE RepoParts(_)
\* culprit_finder_state.py 67-69: the sanitized parts of the repository name that
\* are not blank
RepoParts(parts) ==
  IF parts = <<>> THEN <<>>
  ELSE IF Strip(Head(parts)) = <<>> THEN RepoParts(Tail(parts))
  ELSE <<SanitizeComponent(Head(parts))>> \o RepoParts(Tail(parts))

\* culprit_finder_state.py 62-71: the directories below the state root
GetBaseDir(r) == RepoParts(SplitSlash(r, <<>>))

\* one call of _sanitize_component ("component") or of _get_base_dir ("repo")
InitPaths ==
  /\ commits = <<>>
  /\ use_cache = FALSE
  /\ retries = 0
  /\ job = FALSE
  /\ has_wrapper = FALSE
  /\ repo = DefaultTarget[1]
  /\ workflow_file = DefaultTarget[2]
  /\ jobq = NoQuery
  /\ store = NoStore
  /\ pair = NoPair
  /\ overlap = NoOverlap
  /\ \E k \in {"component", "repo"}, v \in PathStrings(MaxPathLen) :
       pathq = [kind |-> k, value |-> v, done |-> FALSE, out |-> <<>>]
  /\ InitLocals

\* culprit_finder_state.py 25-51: the call
SanitizeCall ==
  /\ pathq.kind = "component"
  /\ ~pathq.done
  /\ pathq' = [pathq EXCEPT !.done = TRUE, !.out = SanitizeComponent(pathq.value)]
  /\ UNCHANGED <<pc, err, state, cliVars, commits, use_cache, retries, job, has_wrapper,
                 repo, workflow_file, pair, overlap, jobq, store, engVars, tstVars, brVars, histVars,
                 testErr, cliIn>>

\* culprit_finder_state.py 62-71: the call
GetBaseDirCall ==
  /\ pathq.kind = "repo"
  /\ ~pathq.done
  /\ pathq' = [pathq EXCEPT !.done = TRUE, !.out = GetBaseDir(pathq.value)]
  /\ UNCHANGED <<pc, err, state, cliVars, commits, use_cache, retries, job, has_wrapper,
                 repo, workflow_file, pair, overlap, jobq, store, engVars, tstVars, brVars, histVars,
                 testErr, cliIn>>

NextPaths == SanitizeCall \/ GetBaseDirCall

SpecPaths == InitPaths /\ [][NextPaths]_vars

\* ------------------------------------------- StatePersister used directly
\* an identity: the arguments of StatePersister.__init__; job is <<>> for None and
\* <<name>> for a name
Identity(r, w, j) == [repo |-> r, workflow |-> w, job |-> j]

\* the identities of the two StatePersister objects
Identities ==
  {Identity(<<"o", "/", "r">>, <<"w">>, <<>>),
   Identity(<<"o", "/", "r">>, <<"w">>, <<<<"j">>>>),
   Identity(<<"o", "/", "r">>, <<"w", "_", "j">>, <<>>),
   Identity(<<"o", "/", "r">>, <<"x">>, <<>>)}

\* culprit_finder_state.py 75
Default == <<"d", "e", "f", "a", "u", "l", "t">>

\* culprit_finder_state.py 78-79
DotJson == <<".", "j", "s", "o", "n">>

\* culprit_finder_state.py 73-79: the directories and the file name; an empty job
\* name counts as no job
GetFilePath(id) ==
  LET w == SanitizeComponent(id.workflow)
      safe_workflow == IF w = <<>> THEN Default ELSE w
      name == IF id.job # <<>> /\ id.job[1] # <<>>
                THEN safe_workflow \o <<"_">> \o SanitizeComponent(id.job[1]) \o DotJson
                ELSE safe_workflow \o DotJson
  IN Append(GetBaseDir(id.repo), name)

\* culprit_finder_state.py 14-22: a CulpritFinderState; job is <<>> for None
StoreState(j, g, b, c) ==
  [repo |-> "o/r", workflow |-> "w", job |-> j, original_start |-> "c0",
   original_end |-> "c2", current_good |-> g, current_bad |-> b, cache |-> c]

\* the states handed to save
StoreStates ==
  {StoreState(j, x[1], x[2], x[3]) :
     j \in {<<>>, <<"test/job">>},
     x \in {<<"", "", EmptyCache>>,
            <<"c0", "", CachePut(EmptyCache, "c0", "PASS")>>,
            <<"c0", "c1", CachePut(CachePut(EmptyCache, "c0", "PASS"), "c1", "FAIL")>>}}

\* culprit_finder_state.py 101-102: json.dump writes an object with the keys of the
\* dictionary; None becomes null, a string a string, the cache an object
JsonDump(s) ==
  [k \in DOMAIN s |->
     IF k = "job"
       THEN IF s.job = <<>> THEN [t |-> "null"] ELSE [t |-> "string", v |-> s.job[1]]
     ELSE IF k = "cache" THEN [t |-> "object", v |-> s.cache]
     ELSE [t |-> "string", v |-> s[k]]]

\* json.load of one value
JsonValue(x) == IF x.t = "null" THEN <<>> ELSE x.v

\* data.get(k, default)
DataGet(data, k, default) == IF k \in DOMAIN data THEN JsonValue(data[k]) ELSE default

LoadFieldsNoJob(data) ==
  [repo |-> JsonValue(data.repo),
   workflow |-> JsonValue(data.workflow),
   job |-> <<>>,
   original_start |-> JsonValue(data.original_start),
   original_end |-> JsonValue(data.original_end),
   current_good |-> DataGet(data, "current_good", ""),
   current_bad |-> DataGet(data, "current_bad", ""),
   cache |-> DataGet(data, "cache", EmptyCache)]

\* culprit_finder_state.py 112-122: the dictionary load builds from the object read
LoadFields(data) ==
  [repo |-> JsonValue(data.repo),
   workflow |-> JsonValue(data.workflow),
   job |-> IF "job" \in DOMAIN data /\ data.job.t = "string"
             THEN <<JsonValue(data.job)>> ELSE <<>>,
   original_start |-> JsonValue(data.original_start),
   original_end |-> JsonValue(data.original_end),
   current_good |-> DataGet(data, "current_good", ""),
   current_bad |-> DataGet(data, "current_bad", ""),
   cache |-> DataGet(data, "cache", EmptyCache)]

\* the last call: who made it, its argument, what it returned or raised, and the
\* files before it
StoreCall(who, op, arg, out, e, before) ==
  [who |-> who, op |-> op, arg |-> arg, out |-> out, err |-> e, before |-> before]

\* two StatePersister objects and the files of their paths, all absent
InitStore ==
  /\ commits = <<>>
  /\ use_cache = FALSE
  /\ retries = 0
  /\ job = FALSE
  /\ has_wrapper = FALSE
  /\ repo = DefaultTarget[1]
  /\ workflow_file = DefaultTarget[2]
  /\ jobq = NoQuery
  /\ pathq = NoPathQuery
  /\ pair = NoPair
  /\ overlap = NoOverlap
  /\ \E a \in Identities, b \in Identities :
       store = [ids |-> <<a, b>>,
                fs |-> [q \in {GetFilePath(a), GetFilePath(b)} |-> NoFile],
                held |-> <<>>,
                last |-> <<>>]
  /\ InitLocals

\* what the identity of the first object holds by the contract of the store: the
\* state of its latest save unless a delete followed (history)
Held(i, h) == IF store.ids[i] = store.ids[1] THEN h ELSE store.held

\* culprit_finder_state.py 85-91
StoreExists(i) ==
  LET f == store.fs[GetFilePath(store.ids[i])]
  IN /\ store' = [store EXCEPT
                    !.last = StoreCall(i, "exists", <<>>, Exists(f), NoErr, store.fs)]
     /\ UNCHANGED <<pc, err, state, cliVars, commits, use_cache, retries, job,
                    has_wrapper, repo, workflow_file, pair, overlap, jobq, pathq, engVars, tstVars,
                    brVars, histVars, testErr, cliIn>>

\* culprit_finder_state.py 93-102
StoreSave(i, s) ==
  LET path == GetFilePath(store.ids[i])
  IN /\ store' = [store EXCEPT
                    !.fs[path] = Save(JsonDump(s)),
                    !.held = Held(i, <<s>>),
                    !.last = StoreCall(i, "save", s, <<>>, NoErr, store.fs)]
     /\ UNCHANGED <<pc, err, state, cliVars, commits, use_cache, retries, job,
                    has_wrapper, repo, workflow_file, pair, overlap, jobq, pathq, engVars, tstVars,
                    brVars, histVars, testErr, cliIn>>

\* culprit_finder_state.py 104-122: open raises FileNotFoundError on a missing file
StoreLoad(i) ==
  LET f == store.fs[GetFilePath(store.ids[i])]
  IN /\ store' = [store EXCEPT
                    !.last = IF Exists(f)
                               THEN StoreCall(i, "load", <<>>, LoadFields(f.data), NoErr,
                                              store.fs)
                               ELSE StoreCall(i, "load", <<>>, <<>>, FileNotFound,
                                              store.fs)]
     /\ UNCHANGED <<pc, err, state, cliVars, commits, use_cache, retries, job,
                    has_wrapper, repo, workflow_file, pair, overlap, jobq, pathq, engVars, tstVars,
                    brVars, histVars, testErr, cliIn>>

\* culprit_finder_state.py 124-127: unlink raises FileNotFoundError on a missing file
StoreDelete(i) ==
  LET path == GetFilePath(store.ids[i])
      f == store.fs[path]
  IN /\ store' = IF Exists(f)
                   THEN [store EXCEPT
                           !.fs[path] = Delete(f),
                           !.held = Held(i, <<>>),
                           !.last = StoreCall(i, "delete", <<>>, <<>>, NoErr, store.fs)]
                   ELSE [store EXCEPT
                           !.last = StoreCall(i, "delete", <<>>, <<>>, FileNotFound,
                                              store.fs)]
     /\ UNCHANGED <<pc, err, state, cliVars, commits, use_cache, retries, job,
                    has_wrapper, repo, workflow_file, pair, overlap, jobq, pathq, engVars, tstVars,
                    brVars, histVars, testErr, cliIn>>

NextStore ==
  \/ \E i \in 1..2 : StoreExists(i)
  \/ \E i \in 1..2, s \in StoreStates : StoreSave(i, s)
  \/ \E i \in 1..2 : StoreLoad(i)
  \/ \E i \in 1..2 : StoreDelete(i)

SpecStore == InitStore /\ [][NextStore]_vars

\* ------------------------------------------- two executions of run_bisection
\* the verdict the cache of state s has for sha ("None": no entry)
CachedVerdictCurrent(s, sha) ==
  IF sha = s.current_bad THEN "False"
  ELSE IF IsCacheHit(sha, s.cache) THEN CacheVerdict(s.cache[sha]) ELSE "None"

\* culprit_finder.py 382-385: the verdict the cache of state s has for sha
CachedVerdict(s, sha) ==
  IF IsCacheHit(sha, s.cache) THEN CacheVerdict(s.cache[sha]) ELSE "None"

\* the caches a saved state can hold for the commits
PairCaches ==
  UNION {[d -> {"PASS", "FAIL"}] : d \in SUBSET {commits[i] : i \in 1..Len(commits)}}

\* values of current_good and current_bad
Currents == {<<"", "">>, <<"c0", "">>, <<"c1", "c0">>}

\* run_bisection at its loop head with state s (culprit_finder.py 373-374)
Execution(s) ==
  [state |-> s, good_idx |-> -1, bad_idx |-> Len(commits), log |-> <<>>, at |-> "loop",
   result |-> "None"]

\* two executions over the same commits whose states differ at most in current_good
\* and current_bad; memo is what the provider has answered for each sha so far
InitPair ==
  /\ \E n \in 1..MaxCommits : commits = SubSeq(Shas, 1, n)
  /\ use_cache \in BOOLEAN
  /\ retries = 0
  /\ job = FALSE
  /\ has_wrapper = FALSE
  /\ repo = DefaultTarget[1]
  /\ workflow_file = DefaultTarget[2]
  /\ jobq = NoQuery
  /\ pathq = NoPathQuery
  /\ store = NoStore
  /\ overlap = NoOverlap
  /\ \E c \in PairCaches, a \in Currents, b \in Currents :
       LET sa == StoreState(<<>>, a[1], a[2], c)
           sb == StoreState(<<>>, b[1], b[2], c)
       IN pair = [start |-> <<sa, sb>>,
                  x |-> <<Execution(sa), Execution(sb)>>,
                  memo |-> [sha \in {} |-> <<>>]]
  /\ InitLocals

\* what the provider answers to question q about sha: the answer it gave before, or
\* the fresh answer
Answer(sha, q, fresh) ==
  IF <<sha, q>> \in DOMAIN pair.memo THEN pair.memo[<<sha, q>>] ELSE fresh

\* culprit_finder.py 376-401: one iteration of execution i; existing is what
\* _check_existing_run gives ("None", "True", "False") and test what
\* _execute_test_with_branch gives ("True", "False", or "raise" for a fatal error) when
\* the provider has not answered for this sha before
PairIteration(i, existing, test) ==
  LET e == pair.x[i]
      mid == Mid(e.good_idx, e.bad_idx)
      sha == CommitAt(mid)
      cached == CachedVerdict(e.state, sha)
      is_cached_ == cached # "None"
      lookup == Resolution(cached, use_cache) = "check_existing_run"
      found == IF lookup THEN Answer(sha, "existing", existing) ELSE "None"
      tested == ~is_cached_ /\ found = "None"
      outcome == IF tested THEN Answer(sha, "test", test) ELSE "None"
      verdict == IF is_cached_ THEN cached ELSE IF found # "None" THEN found ELSE outcome
      ops == (IF lookup THEN <<"check_existing_run">> ELSE <<>>)
               \o (IF tested THEN <<"execute_test">> ELSE <<>>)
      entry == [sha |-> sha, ops |-> ops, good |-> verdict]
      memo1 == IF lookup
                 THEN [k \in DOMAIN pair.memo \cup {<<sha, "existing">>} |->
                         IF k = <<sha, "existing">> THEN found ELSE pair.memo[k]]
                 ELSE pair.memo
      memo2 == IF tested
                 THEN [k \in DOMAIN memo1 \cup {<<sha, "test">>} |->
                         IF k = <<sha, "test">> THEN outcome ELSE memo1[k]]
                 ELSE memo1
      e1 == IF verdict = "raise"
              THEN [e EXCEPT !.log = Append(e.log, entry), !.at = "raised"]
              ELSE [e EXCEPT
                      !.log = Append(e.log, entry),
                      !.good_idx = IF verdict = "True" THEN mid ELSE e.good_idx,
                      !.bad_idx = IF verdict = "True" THEN e.bad_idx ELSE mid,
                      !.state = IF ShouldUpdate(is_cached_)
                                  THEN UpdatedState(e.state, sha, verdict)
                                  ELSE e.state]
  IN /\ pair # NoPair
     /\ e.at = "loop"
     /\ LoopCond(e.good_idx, e.bad_idx)
     /\ pair' = [pair EXCEPT !.x[i] = e1, !.memo = memo2]
     /\ UNCHANGED <<pc, err, state, cliVars, commits, use_cache, retries, job,
                    has_wrapper, repo, workflow_file, overlap, jobq, pathq, store,
                    engVars, tstVars, brVars, histVars, testErr, cliIn>>

\* culprit_finder.py 376, 403-406: execution i leaves the loop and returns
PairReturn(i) ==
  LET e == pair.x[i]
  IN /\ pair # NoPair
     /\ e.at = "loop"
     /\ ~LoopCond(e.good_idx, e.bad_idx)
     /\ pair' = [pair EXCEPT
                   !.x[i] = [e EXCEPT !.at = "returned",
                                      !.result = ReturnValue(e.good_idx, e.bad_idx)]]
     /\ UNCHANGED <<pc, err, state, cliVars, commits, use_cache, retries, job,
                    has_wrapper, repo, workflow_file, overlap, jobq, pathq, store,
                    engVars, tstVars, brVars, histVars, testErr, cliIn>>

NextPair ==
  \/ \E i \in 1..2, existing \in {"None", "True", "False"},
        test \in {"True", "False", "raise"} :
       PairIteration(i, existing, test)
  \/ \E i \in 1..2 : PairReturn(i)

SpecPair == InitPair /\ [][NextPair]_vars

\* ------------------------------ overlapping _execute_test_with_branch calls
\* Two executions of _execute_test_with_branch (two bisection processes on one
\* repository) against one provider. overlap.refs are the provider's branches, each
\* with the execution that created it; overlap.x[i] is execution i: where it is, its
\* branch name and whether it called create_branch; overlap.uuids counts the uuid4
\* values drawn (uuid4 gives a value no earlier call gave); overlap.ops records the
\* trigger_workflow and delete_branch calls with the creator of the branch they hit.
Idle == [at |-> "idle", name |-> NoBranch, created |-> FALSE]

\* github_client.py 103-117: the names for which get_branch succeeds
RefNames == {r.name : r \in overlap.refs}

\* the execution that created the branch of that name (0: there is no such branch)
CreatorOf(name) ==
  IF name \in RefNames THEN (CHOOSE r \in overlap.refs : r.name = name).by ELSE 0

InitOverlap ==
  /\ \E n \in 1..MaxCommits : commits = SubSeq(Shas, 1, n)
  /\ use_cache = FALSE
  /\ retries = 0
  /\ job = FALSE
  /\ has_wrapper = FALSE
  /\ repo = DefaultTarget[1]
  /\ workflow_file = DefaultTarget[2]
  /\ jobq = NoQuery
  /\ pathq = NoPathQuery
  /\ store = NoStore
  /\ pair = NoPair
  /\ overlap = [refs |-> {}, x |-> <<Idle, Idle>>, uuids |-> 0, ops |-> {}]
  /\ InitLocals

\* culprit_finder.py 321-324: execution i names its branch for commit number k and
\* asks whether it exists; create_branch is skipped when it does
OverlapStart(i, k) ==
  LET name == BranchName(commits[k], overlap.uuids + 1)
  IN /\ overlap # NoOverlap
     /\ overlap.x[i].at = "idle"
     /\ overlap.uuids < MaxUuids
     /\ k \in 1..Len(commits)
     /\ overlap' = [overlap EXCEPT
                      !.uuids = overlap.uuids + 1,
                      !.x[i] = [at |-> IF name \in RefNames THEN "test" ELSE "create",
                                name |-> name, created |-> FALSE]]
     /\ UNCHANGED <<pc, err, state, cliVars, commits, use_cache, retries, job,
                    has_wrapper, repo, workflow_file, pair, jobq, pathq, store, engVars,
                    tstVars, brVars, histVars, testErr, cliIn>>
\* culprit_finder.py 325 / github_client.py 119-127: create_git_ref raises when a
\* branch of that name is there, and the error leaves _execute_test_with_branch
\* before the try
OverlapCreate(i) ==
  LET e == overlap.x[i]
  IN /\ overlap # NoOverlap
     /\ e.at = "create"
     /\ overlap' = IF e.name \in RefNames
                     THEN [overlap EXCEPT !.x[i] = Idle]
                     ELSE [overlap EXCEPT
                             !.refs = overlap.refs \cup {[name |-> e.name, by |-> i]},
                             !.x[i] = [e EXCEPT !.at = "wait", !.created = TRUE]]
     /\ UNCHANGED <<pc, err, state, cliVars, commits, use_cache, retries, job,
                    has_wrapper, repo, workflow_file, pair, jobq, pathq, store, engVars,
                    tstVars, brVars, histVars, testErr, cliIn>>
\* culprit_finder.py 327 / github_client.py 129-149: the branch is seen in time, or
\* the ValueError leaves _execute_test_with_branch before the try
OverlapWait(i, inTime) ==
  LET e == overlap.x[i]
  IN /\ overlap # NoOverlap
     /\ e.at = "wait"
     /\ overlap' = [overlap EXCEPT
                      !.x[i] = IF inTime /\ e.name \in RefNames
                                 THEN [e EXCEPT !.at = "test"]
                                 ELSE Idle]
     /\ UNCHANGED <<pc, err, state, cliVars, commits, use_cache, retries, job,
                    has_wrapper, repo, workflow_file, pair, jobq, pathq, store, engVars,
                    tstVars, brVars, histVars, testErr, cliIn>>
\* culprit_finder.py 243-247: _test_commit dispatches the workflow on its branch name;
\* the provider rejects a dispatch on a branch that is not there
OverlapDispatch(i) ==
  LET e == overlap.x[i]
      op == [op |-> "trigger_workflow", by |-> i, name |-> e.name,
             creator |-> CreatorOf(e.name)]
  IN /\ overlap # NoOverlap
     /\ e.at = "test"
     /\ op \notin overlap.ops
     /\ overlap' = IF e.name \in RefNames
                     THEN [overlap EXCEPT !.ops = overlap.ops \cup {op}]
                     ELSE [overlap EXCEPT !.x[i] = [e EXCEPT !.at = "finally"]]
     /\ UNCHANGED <<pc, err, state, cliVars, commits, use_cache, retries, job,
                    has_wrapper, repo, workflow_file, pair, jobq, pathq, store, engVars,
                    tstVars, brVars, histVars, testErr, cliIn>>
\* culprit_finder.py 329-330: _test_commit returns or raises
OverlapTestDone(i) ==
  LET e == overlap.x[i]
  IN /\ overlap # NoOverlap
     /\ e.at = "test"
     /\ overlap' = [overlap EXCEPT !.x[i] = [e EXCEPT !.at = "finally"]]
     /\ UNCHANGED <<pc, err, state, cliVars, commits, use_cache, retries, job,
                    has_wrapper, repo, workflow_file, pair, jobq, pathq, store, engVars,
                    tstVars, brVars, histVars, testErr, cliIn>>
\* culprit_finder.py 331-334: the finally clause deletes the branch of that name when
\* check_branch_exists reports it (it reports False when the API call fails)
OverlapFinally(i, apiFails) ==
  LET e == overlap.x[i]
      op == [op |-> "delete_branch", by |-> i, name |-> e.name,
             creator |-> CreatorOf(e.name)]
  IN /\ overlap # NoOverlap
     /\ e.at = "finally"
     /\ overlap' = IF e.name \in RefNames /\ ~apiFails
                     THEN [overlap EXCEPT
                             !.refs = {r \in overlap.refs : r.name # e.name},
                             !.ops = overlap.ops \cup {op},
                             !.x[i] = Idle]
                     ELSE [overlap EXCEPT !.x[i] = Idle]
     /\ UNCHANGED <<pc, err, state, cliVars, commits, use_cache, retries, job,
                    has_wrapper, repo, workflow_file, pair, jobq, pathq, store, engVars,
                    tstVars, brVars, histVars, testErr, cliIn>>
NextOverlap ==
  \/ \E i \in 1..2, k \in 1..MaxCommits : OverlapStart(i, k)
  \/ \E i \in 1..2 : OverlapCreate(i)
  \/ \E i \in 1..2, inTime \in BOOLEAN : OverlapWait(i, inTime)
  \/ \E i \in 1..2 : OverlapDispatch(i)
  \/ \E i \in 1..2 : OverlapTestDone(i)
  \/ \E i \in 1..2, apiFails \in BOOLEAN : OverlapFinally(i, apiFails)

SpecOverlap == InitOverlap /\ [][NextOverlap]_vars

\* ================================================================ claims
\* positions at which the verdict of the selected midpoint is being resolved
EvalPcs ==
  {"check_existing_run", "execute_test", "create_branch", "wait_for_branch",
   "test_commit", "test_attempt", "poll", "get_jobs", "finally", "delete_branch"}

LogShas == {log[i].sha : i \in 1..Len(log)}

NonCachedEntries == {i \in 1..Len(log) : log[i].src # "cache"}

\* the verdicts of this run are monotone with first bad index k
MonotoneAt(k) ==
  \A i \in 1..Len(log) : (log[i].good = "True") <=> (IndexOf(log[i].sha) < k)

\* C1: for a non-empty range whose resolved verdicts are monotone with first BAD
\* index k (GOOD below k, BAD from k on), run_bisection returns commits[k] when
\* k < N and None when k = N.
C1_MonotoneResult ==
  (pc = "returned" /\ Len(commits) >= 1) =>
    \A k \in 0..Len(commits) :
      MonotoneAt(k) => result = (IF k < Len(commits) THEN CommitAt(k) ELSE "None")

C1_Witness ==
  /\ pc = "returned" /\ Len(commits) >= 3
  /\ MonotoneAt(1) /\ result = CommitAt(1)
  /\ \E i \in 1..Len(log) : log[i].src = "test"

\* C2: a commit whose sha is a key of state.cache when it is selected as midpoint
\* is never passed to _execute_test_with_branch or _check_existing_run; its
\* verdict is the cached one (PASS is good, anything else is bad).
C2_CachedNeverTested ==
  /\ ~(pc \in EvalPcs /\ CommitAt(mid_idx) \in DOMAIN snap.state.cache)
  /\ (pc = "narrow" /\ CommitAt(mid_idx) \in DOMAIN snap.state.cache) =>
       /\ is_good = (IF snap.state.cache[CommitAt(mid_idx)] = "PASS" THEN "True" ELSE "False")
       /\ CommitAt(mid_idx) \notin testCalls \cup lookupCalls
  /\ \A i \in 1..Len(log) :
       log[i].sha \in DOMAIN startCache =>
         /\ log[i].sha \notin testCalls \cup lookupCalls
         /\ log[i].good = (IF startCache[log[i].sha] = "PASS" THEN "True" ELSE "False")

C2_Witness ==
  /\ pc = "narrow" /\ is_cached
  /\ CommitAt(mid_idx) \in DOMAIN startCache
  /\ testCalls = {} /\ lookupCalls = {}

\* C3: _update_state saves exactly once for each midpoint resolved by an
\* existing run or a fresh test, after the verdict is recorded in state.cache,
\* and never for a cache hit; a completed run has made as many saves as it
\* evaluated non-cached midpoints.
C3_SavePerNonCached ==
  /\ pc \in {"loop", "returned"} \cup EvalPcs \cup {"narrow"} =>
       saves = Cardinality(NonCachedEntries)
  /\ pc = "save" =>
       /\ ~is_cached
       /\ saves + 1 = Cardinality(NonCachedEntries)
       /\ CommitAt(mid_idx) \in DOMAIN state.cache
       /\ state.cache[CommitAt(mid_idx)] = (IF is_good = "True" THEN "PASS" ELSE "FAIL")
  /\ pc = "update_state" => ~is_cached

C3_Witness ==
  /\ pc = "returned"
  /\ saves >= 1
  /\ \E i \in 1..Len(log) : log[i].src = "cache"
  /\ \E i \in 1..Len(log) : log[i].src = "existing"

\* C4 (as claimed): whenever _execute_test_with_branch created the branch and
\* control is back in the engine, with a verdict or with a fatal error other
\* than a failure of delete_branch, the branch no longer exists.
C4_BranchGoneOnReturn ==
  (created /\ pc \in {"narrow", "raised"} /\ err \in FatalErrors \cup {NoErr}) =>
    branch = "absent"

\* C5 (as claimed): when the test raised a fatal error E, the error that leaves
\* _execute_test_with_branch and run_bisection is E, whatever the cleanup does.
C5_CleanupDoesNotMask ==
  (pc = "raised" /\ testErr \in FatalErrors /\ err # KeyboardInterrupt) => err = testErr

\* C6: when resolving a midpoint raises a fatal error, run_bisection raises it
\* and returns nothing; the commit gets no verdict, state.cache, current_good,
\* current_bad and the indices are as they were when the midpoint was selected,
\* and nothing is saved for it.
C6_FatalErrorAborts ==
  (err \in FatalErrors \cup {CleanupError}) =>
    /\ pc \in {"finally", "delete_branch", "raised", "exit_error"}
    /\ result = "None"
    /\ is_good = "None"
    /\ state = snap.state
    /\ saves = snap.saves
    /\ good_idx = snap.good /\ bad_idx = snap.bad
    /\ (Len(commits) > 0 /\ bad_idx # 0) => CommitAt(mid_idx) \notin LogShas

C6_Witness ==
  /\ pc = "raised" /\ err = PollTimeout
  /\ Len(log) >= 1 /\ saves >= 1

\* C7: with retries = r, _test_commit dispatches at most r + 1 times; it
\* dispatches again only after an attempt that was not a success, returns GOOD at
\* the first success without a further dispatch, and returns BAD after exactly
\* r + 1 dispatches.
C7_RetryBudget ==
  (pc \in TryPcs \cup {"finally", "delete_branch"}) =>
    /\ dispatches <= retries + 1
    /\ dispatches = attempt + (IF pc \in {"poll", "get_jobs"} \/ ret = "True" THEN 1 ELSE 0)
          \/ (pc \in {"finally", "delete_branch"} /\ ret = "None")
    /\ (pc = "test_attempt" /\ attempt > 0) => run_conclusion # "success"
    /\ ret = "True" => dispatches = attempt + 1
    /\ ret = "False" => dispatches = retries + 1

C7_Witness ==
  /\ pc = "finally" /\ err = NoErr
  /\ retries = 2 /\ run_conclusion = "success"
  /\ ret = "True" /\ dispatches = 3

\* the commits whose resolution was started in this run and did not finish
InFlight == (testCalls \cup lookupCalls) \ LogShas

RECURSIVE Bisect(_, _, _)
Bisect(v, g, b) ==
  IF b - g > 1
    THEN LET m == (g + b) \div 2
         IN IF v[CommitAt(m)] = "PASS" THEN Bisect(v, m, b) ELSE Bisect(v, g, m)
    ELSE IF b = Len(commits) THEN "None" ELSE CommitAt(b)

\* C9: a run resumed from the persisted state returns what one uninterrupted run
\* over the same verdicts returns, and tests or looks up no commit whose verdict
\* was persisted.
C9_ResumeEquivalent ==
  /\ (DOMAIN startCache) \cap (testCalls \cup lookupCalls) = {}
  /\ (pc = "returned" /\ Len(commits) >= 1) =>
       result = Bisect(state.cache, -1, Len(commits))

C9_Witness ==
  /\ pc = "returned" /\ runNo >= 2
  /\ startCache # EmptyCache
  /\ testCalls # {}
  /\ \E i \in 1..Len(log) : log[i].src = "cache"

\* C10: for an empty commit list run_bisection returns None at once: the indices
\* are never set, no branch is created, nothing is dispatched or looked up, the
\* state is not modified and nothing is saved.
C10_EmptyRange ==
  (pc = "returned" /\ Len(commits) = 0) =>
    /\ result = "None"
    /\ good_idx = 0 /\ bad_idx = 0
    /\ testCalls = {} /\ lookupCalls = {} /\ log = <<>>
    /\ ~created /\ dispatches = 0
    /\ saves = 0
    /\ state = snap.state

C10_Witness ==
  /\ pc = "returned" /\ Len(commits) = 0
  /\ runNo >= 1 /\ result = "None"

\* the least k with 2^k >= n
RECURSIVE CeilLog2From(_, _)
CeilLog2From(n, k) == IF 2^k >= n THEN k ELSE CeilLog2From(n, k + 1)

CeilLog2(n) == CeilLog2From(n, 0)

\* the midpoints selected so far in this run_bisection, the one in hand included
Evaluations == Len(log) + (IF pc \in EvalPcs \cup {"narrow"} THEN 1 ELSE 0)

\* C11: for a range of N >= 1 commits and any verdicts, monotone or not,
\* run_bisection evaluates at most ceil(log2(N + 1)) midpoints before it returns.
C11_LogarithmicSteps ==
  Len(commits) >= 1 => Evaluations <= CeilLog2(Len(commits) + 1)

C11_Witness ==
  /\ pc = "returned"
  /\ Len(commits) >= 2
  /\ Len(log) = CeilLog2(Len(commits) + 1)
  /\ \E i \in 1..Len(log) : log[i].src = "test"

\* a step of run_bisection keeps the cache entries and adds at most the evaluated sha
CacheGrowsStep ==
  pc \in RunningPcs =>
    /\ \A s \in DOMAIN state.cache :
         s \in DOMAIN state'.cache /\ state'.cache[s] = state.cache[s]
    /\ \A s \in (DOMAIN state'.cache) \ (DOMAIN state.cache) : s = CommitAt(mid_idx)
    /\ Cardinality(DOMAIN state'.cache) <= Cardinality(DOMAIN state.cache) + 1

\* C12: within one run_bisection state.cache only grows: a step keeps every entry
\* with its verdict and adds at most one entry, the one of the evaluated sha.
C12_CacheOnlyGrows == [][CacheGrowsStep]_vars

C12_Witness ==
  /\ pc = "save"
  /\ DOMAIN snap.state.cache # {}
  /\ CommitAt(mid_idx) \notin DOMAIN snap.state.cache
  /\ DOMAIN state.cache = (DOMAIN snap.state.cache) \cup {CommitAt(mid_idx)}

\* positions inside _execute_test_with_branch
TestPcs == EvalPcs \ {"check_existing_run"}

\* C13: the verdict of a midpoint comes from the state cache first, whatever
\* use_cache is; from an existing completed run only on a cache miss with use_cache
\* true, and that verdict is cached and saved like a fresh one; from a fresh test
\* only when both gave nothing.  With use_cache false no existing run is looked up.
C13_ResolutionOrder ==
  /\ pc \in EvalPcs \cup {"narrow"} =>
       (is_cached <=> CommitAt(mid_idx) \in DOMAIN snap.state.cache)
  /\ pc \in EvalPcs =>
       /\ ~is_cached
       /\ CommitAt(mid_idx) \notin DOMAIN state.cache
  /\ pc = "check_existing_run" =>
       /\ use_cache
       /\ CommitAt(mid_idx) \notin testCalls
  /\ pc \in TestPcs => (use_cache <=> CommitAt(mid_idx) \in lookupCalls)
  /\ ~use_cache => lookupCalls = {}
  /\ \A i \in 1..Len(log) :
       /\ log[i].src = "cache" => log[i].sha \notin lookupCalls \cup testCalls
       /\ log[i].src = "existing" => use_cache /\ log[i].sha \in lookupCalls \ testCalls
       /\ log[i].src = "test" => (use_cache <=> log[i].sha \in lookupCalls)
  /\ pc \in {"loop", "returned"} =>
       \A i \in 1..Len(log) :
         log[i].src = "existing" =>
           /\ log[i].sha \in DOMAIN state.cache
           /\ state.cache[log[i].sha] = (IF log[i].good = "True" THEN "PASS" ELSE "FAIL")
           /\ file = Save(state)

C13_Witness ==
  /\ pc = "loop"
  /\ \E i, j \in 1..Len(log) :
       /\ log[i].src = "existing"
       /\ log[j].src = "test"
       /\ log[j].sha \in lookupCalls

\* a job was requested, the completed run failed and the requested job succeeded
FailedRunGoodJob == job /\ run_conclusion = "failure" /\ run_target = "success"

\* C14: with a job requested, a completed run that failed while the requested job
\* succeeded gives the verdict GOOD, from a fresh test and from an existing run.
C14_JobVerdictWins ==
  FailedRunGoodJob =>
    /\ pc \notin {"test_commit", "test_attempt", "poll"}
    /\ pc \in {"finally", "delete_branch"} /\ testErr = NoErr => ret = "True"
    /\ pc = "narrow" => is_good = "True"

C14_Witness ==
  /\ FailedRunGoodJob
  /\ pc = "narrow"
  /\ Source = "test"
  /\ has_wrapper
  /\ is_good = "True"

\* a job was requested and the completed run has no job of that name
MissingJobRun == job /\ run_target = "missing"

\* the completed run in hand was dispatched by _test_commit (not an existing run)
FreshRun == CommitAt(mid_idx) \in testCalls

SkippedUnderWrapper == run_conclusion = "skipped" /\ has_wrapper /\ FreshRun

\* C16: a dispatched run that completes as skipped while the wrapper is in use makes
\* _test_commit raise the configuration error on that attempt: no verdict, no
\* further dispatch even with retries left, and the commit is not put in the cache.
C16_WrapperSkipFatal ==
  SkippedUnderWrapper =>
    /\ testErr = WrapperSkipped
    /\ pc \notin TryPcs \cup {"narrow"}
    /\ ret = "None"
    /\ is_good = "None"
    /\ attempt <= retries
    /\ dispatches = attempt + 1
    /\ CommitAt(mid_idx) \notin DOMAIN state.cache

C16_Witness ==
  /\ SkippedUnderWrapper
  /\ pc = "finally"
  /\ err = WrapperSkipped
  /\ attempt = 1
  /\ retries = 2
  /\ dispatches = 2

\* the latest run dispatched by _test_commit completed without success (and, with a
\* job requested, so did that job), and it is not the skipped run of a wrapper
NotSuccessRun ==
  /\ run_conclusion \in {"failure", "cancelled", "skipped"}
  /\ ~(run_conclusion = "skipped" /\ has_wrapper)
  /\ job => run_target = "failure"
  /\ FreshRun

WorkflowCalls == {c \in calls : c.op \in {"previous_run", "trigger_workflow", "poll"}}

\* C18: within one _test_commit every dispatch, every previous-run lookup and every
\* completion poll names the same workflow and the same ephemeral branch: with the
\* wrapper culprit_finder.yml, dispatched with workflow-to-debug = the target
\* workflow; without it the target workflow, dispatched with no wrapper input.
C18_SameWorkflowAndBranch ==
  \A c \in WorkflowCalls :
    /\ c.target = (IF has_wrapper THEN "culprit_finder.yml" ELSE workflow_file)
    /\ c.branch = branch_name
    /\ c.branch.sha = CommitAt(mid_idx)
    /\ c.op = "trigger_workflow" =>
         c.inputs.debug = (IF has_wrapper THEN workflow_file ELSE "None")
    /\ c.op # "trigger_workflow" => c.inputs = NoInputs

C18_Witness ==
  /\ has_wrapper
  /\ pc = "finally"
  /\ \A op \in {"previous_run", "trigger_workflow", "poll"} :
       \A a \in 0..1 : \E c \in WorkflowCalls : c.op = op /\ c.attempt = a

\* r is spaces, then t, then spaces, and t has no space at either end
IsTrimOf(t, r) ==
  /\ t = <<>> \/ (t[1] # " " /\ t[Len(t)] # " ")
  /\ \E a \in 0..Len(r) :
       /\ a + Len(t) <= Len(r)
       /\ SubSeq(r, a + 1, a + Len(t)) = t
       /\ \A i \in (1..a) \cup ((a + Len(t) + 1)..Len(r)) : r[i] = " "

\* what is left of a name once everything up to its first "/" is removed
AfterFirstSlash(n, rest) ==
  \/ (\A i \in 1..Len(n) : n[i] # "/") /\ rest = n
  \/ \E i \in 1..Len(n) :
       /\ n[i] = "/"
       /\ \A j \in 1..(i - 1) : n[j] # "/"
       /\ rest = SubSeq(n, i + 1, Len(n))

\* the matching rule: under a wrapper the reported name without its prefix up to the
\* first "/" and without surrounding whitespace equals the requested name; without a
\* wrapper the reported name equals it
NameMatches(reported, requested, wrapper) ==
  IF wrapper
    THEN \E k \in 0..Len(reported) :
           LET rest == SubSeq(reported, k + 1, Len(reported))
           IN AfterFirstSlash(reported, rest) /\ IsTrimOf(requested, rest)
    ELSE reported = requested

InPinTable ==
  /\ repo \in {"jax-ml/jax", "google-ml-infra/jax-fork"}
  /\ workflow_file \in {"wheel_tests_continuous.yml", "build_artifacts.yml"}

PinLookups == {c \in calls : c.op = "get_last_commit_before"}

Dispatches == {c \in calls : c.op = "trigger_workflow"}

\* C20: a dispatch carries the dependency pin exactly when the repository and the
\* workflow are in the pin table and the provider returned a dependency commit for
\* the tested commit's date (the pin is that commit); when the pair matches and no
\* commit is returned the dispatch still happens, without the pin and without an
\* error; when the pair does not match no lookup is made and no pin is sent.
C20_PinExactlyWhenFound ==
  /\ ~InPinTable =>
       /\ PinLookups = {}
       /\ \A t \in Dispatches : t.inputs.pin = "None"
  /\ InPinTable =>
       \A t \in Dispatches :
         \E l \in PinLookups :
           /\ l.attempt = t.attempt
           /\ l.target = "openxla/xla"
           /\ t.inputs.pin = l.answer
  /\ \A l \in PinLookups :
       /\ \E t \in Dispatches : t.attempt = l.attempt
       /\ \A m \in PinLookups : m.attempt = l.attempt => m = l
  /\ dispatches = Cardinality(Dispatches)

\* C21: when run_bisection returns normally the CLI deletes the state file, so no
\* state file is left once the CLI has handled the return; after an interrupt the
\* file is there and holds the state of the interrupted run.
C21_DeletedOnReturn ==
  /\ pc = "exit_ok" => ~Exists(file)
  /\ (pc = "exit_error" /\ err = FileNotFound) => ~Exists(file)
  /\ pc = "exit_interrupted" => Exists(file) /\ Load(file) = state

C21_Witness ==
  /\ pc = "exit_ok"
  /\ runNo = 2
  /\ startCache # EmptyCache
  /\ result # "None"
  /\ ~Exists(file)

\* C22: every delete() the CLI issues finds the state file in place, so no CLI
\* execution ends with the missing-file error of delete().
C22_DeleteOnlyExisting == err # FileNotFound

\* the answers that count as y/yes (in any letter case)
YesAnswers == {"y", "yes", "Y", "Yes"}

\* C27: the state main passes to the engine: with no state file a fresh state; with
\* a file and --clear-cache the file is deleted and a fresh state is used without a
\* prompt; with a file and an answer other than y/yes the file is deleted and a
\* fresh state is used; with the answer y/yes the loaded state is used unchanged
\* and the file stays.
C27_StartState ==
  pc = "run_bisection" =>
    /\ ~Exists(cliIn.file) =>
         ~cliIn.prompted /\ state = FreshState /\ file = cliIn.file
    /\ Exists(cliIn.file) /\ cliIn.clear_cache =>
         ~cliIn.prompted /\ state = FreshState /\ ~Exists(file)
    /\ Exists(cliIn.file) /\ ~cliIn.clear_cache /\ cliIn.answer \notin YesAnswers =>
         cliIn.prompted /\ state = FreshState /\ ~Exists(file)
    /\ Exists(cliIn.file) /\ ~cliIn.clear_cache /\ cliIn.answer \in YesAnswers =>
         /\ cliIn.prompted
         /\ state = cliIn.file.data
         /\ file = cliIn.file
    /\ state.cache = startCache

C27_Witness ==
  /\ pc = "run_bisection"
  /\ Exists(cliIn.file)
  /\ ~cliIn.clear_cache
  /\ cliIn.answer = "Yes"
  /\ state.cache # EmptyCache
  /\ state.current_bad # ""
  /\ Exists(file)

\* C28: on the dry-run client every tested commit resolves GOOD on its first
\* attempt with one dispatch, the completed run differing from the recorded previous
\* run; the existing-run lookup always misses; no branch is left after a test; and
\* run_bisection returns None for every non-empty range.
C28_DryRunAllGood ==
  /\ testErr \in {NoErr, KeyboardInterrupt}
  /\ \A i \in 1..Len(log) : log[i].src # "existing" /\ log[i].good = "True"
  /\ pc \in {"finally", "delete_branch"} /\ testErr = NoErr =>
       /\ ret = "True"
       /\ attempt = 0
       /\ dispatches = 1
       /\ run_id # previous_run_id
       /\ run_conclusion = "success"
  /\ pc \in {"narrow", "update_state", "save", "loop", "returned", "exit_ok"} =>
       branch = "absent"
  /\ pc = "narrow" => is_good = "True"
  /\ pc \in {"returned", "exit_ok"} => result = "None"

\* the run a poll saw is one the polling loop waits on: no run, the run recorded
\* as previous before the dispatch, or a run that is not completed
WaitedOn(r) ==
  \/ r = NoRun
  \/ previous_run_id # 0 /\ r.id = previous_run_id
  \/ r.status # "completed"

\* _wait_for_workflow_completion has returned a run to the current attempt
WaitReturned ==
  \/ pc = "get_jobs"
  \/ pc = "test_attempt" /\ attempt > 0
  \/ pc \in {"finally", "delete_branch"} /\ testErr \in {NoErr, WrapperSkipped, JobNotFound}

\* C29: _wait_for_workflow_completion returns only a run that is completed and
\* whose id is not the previous run id recorded before the dispatch; it polls again
\* exactly when the latest run is absent, is that previous run or is not completed;
\* and once the timeout has elapsed it raises TimeoutError and returns nothing.
C29_WaitReturnsNewCompleted ==
  /\ pc = "poll" /\ polls > 0 => WaitedOn(latest_run)
  /\ WaitReturned =>
       /\ ~WaitedOn(latest_run)
       /\ latest_run.status = "completed"
       /\ latest_run.id # previous_run_id
       /\ run_id = latest_run.id
       /\ run_conclusion = latest_run.conclusion
  /\ pc = "poll" =>
       IF polls < MaxPolls
         THEN /\ ~ENABLED PollTimesOut
              /\ \A r \in LatestRuns :
                   IF WaitedOn(r)
                     THEN ENABLED PollWait(r) /\ \A js \in RunJobLists : ~ENABLED PollCompleted(r, js)
                     ELSE ~ENABLED PollWait(r) /\ \A js \in RunJobLists : ENABLED PollCompleted(r, js)
         ELSE /\ ENABLED PollTimesOut
              /\ \A r \in LatestRuns :
                   ~ENABLED PollWait(r) /\ \A js \in RunJobLists : ~ENABLED PollCompleted(r, js)
  /\ testErr = PollTimeout => ret = "None" /\ is_good = "None"

C29_Witness ==
  /\ pc = "get_jobs"
  /\ attempt = 1
  /\ previous_run_id = 1
  /\ latest_run.id = 2
  /\ latest_run.conclusion = "cancelled"
  /\ \E c \in calls : c.op = "poll" /\ c.attempt = 1

\* the errors C30 names: polling timeout, job not found, provider error
TesterFatal == {PollTimeout, JobNotFound, ProviderError}

\* C30: a polling timeout, a job-not-found error or a provider error raised on any
\* attempt leaves _test_commit at once: no verdict, no later attempt and no further
\* dispatch although retries may remain; a further attempt only ever follows a
\* completed run that was not a success.
C30_FatalNotRetried ==
  /\ testErr \in TesterFatal =>
       /\ pc \in {"finally", "delete_branch", "raised", "exit_error", "exit_interrupted"}
       /\ ret = "None"
       /\ is_good = "None"
  /\ (testErr \in TesterFatal /\ pc \in {"finally", "delete_branch"}) =>
       /\ attempt <= retries
       /\ dispatches \in {attempt, attempt + 1}
       /\ (testErr \in {PollTimeout, JobNotFound}) => (dispatches = attempt + 1)
  /\ (pc \in TryPcs /\ attempt > 0) =>
       /\ testErr = NoErr
       /\ dispatches >= attempt
  /\ (pc = "test_attempt" /\ attempt > 0) =>
       /\ latest_run.status = "completed"
       /\ run_conclusion \in (Conclusions \ {"success"})
       /\ job => (run_target = "failure")

C30_Witness ==
  /\ pc = "finally"
  /\ testErr = JobNotFound
  /\ attempt = 1
  /\ retries = 2
  /\ dispatches = 2
  /\ ret = "None"

\* v has two dots in a row
HasDotDot(v) == \E i \in 1..(Len(v) - 1) : v[i] = "." /\ v[i + 1] = "."

\* v has a path separator
HasSeparator(v) == \E i \in 1..Len(v) : v[i] \in {"/", "\\"}

\* C25: the result of _sanitize_component is never "..", has no ".." in it and has no
\* "/" or "\"; hence no directory of the state file path is "..", and the path stays
\* under the state root.
C25_SanitizedIsSafe ==
  pathq.done =>
    /\ pathq.kind = "component" =>
         /\ pathq.out # <<".", ".">>
         /\ ~HasDotDot(pathq.out)
         /\ ~HasSeparator(pathq.out)
    /\ pathq.kind = "repo" =>
         \A i \in 1..Len(pathq.out) : pathq.out[i] # <<".", ".">>

\* a call was made, and both objects have the same identity
OneIdentity == store.last # <<>> /\ store.ids[1] = store.ids[2]

\* the file of the identity of the first object
HeldFile == store.fs[GetFilePath(store.ids[1])]

FileBefore == store.last.before[GetFilePath(store.ids[store.last.who])]

\* C24: exists() is true exactly when a save was made and no delete followed it, so
\* it is false after save then delete; load and delete on a missing file raise
\* FileNotFoundError and leave the files as they were.
C24_ExistsBetweenSaveAndDelete ==
  OneIdentity =>
    /\ Exists(HeldFile) <=> store.held # <<>>
    /\ store.last.op = "exists" => (store.last.out <=> store.held # <<>>)
    /\ store.last.op = "delete" /\ store.last.err = NoErr => ~Exists(HeldFile)
    /\ store.last.op \in {"load", "delete"} /\ ~Exists(FileBefore) =>
         /\ store.last.err = FileNotFound
         /\ store.fs = store.last.before
    /\ store.last.op \in {"load", "delete"} /\ Exists(FileBefore) =>
         store.last.err = NoErr

\* a delete while the identity holds no state: it raises
C24_Witness ==
  /\ OneIdentity
  /\ store.last.op = "delete"
  /\ store.last.err = FileNotFound
  /\ store.held = <<>>
  /\ ~Exists(HeldFile)

\* the object that did not make the last call
Other == 3 - store.last.who

\* C26: two different (repo, workflow, job) triples never have the same state file,
\* so a save or a delete under one identity leaves the file of another identity, and
\* with it what exists() and load() return there, as it was.
C26_OneFilePerIdentity ==
  store.ids[1] # store.ids[2] =>
    /\ GetFilePath(store.ids[1]) # GetFilePath(store.ids[2])
    /\ store.last # <<>> =>
         store.fs[GetFilePath(store.ids[Other])]
           = store.last.before[GetFilePath(store.ids[Other])]

\* C31: after create_branch no dispatch is issued until wait_for_branch_creation has
\* seen the branch: _test_commit only runs with the branch visible, and a branch not
\* seen in time raises the fatal error with no dispatch made for that test.
C31_NoDispatchBeforeVisible ==
  /\ pc \in {"create_branch", "wait_for_branch"} => dispatches = 0 /\ calls = {}
  /\ branch = "hidden" => created /\ dispatches = 0 /\ calls = {}
  /\ pc \in TryPcs => branch = "visible"
  /\ err = BranchTimeout =>
       /\ pc \in {"raised", "exit_error"}
       /\ dispatches = 0
       /\ testErr = NoErr
       /\ is_good = "None"

\* a dispatch on a branch the tester created and saw
C31_Witness ==
  /\ pc = "poll"
  /\ created
  /\ branch = "visible"
  /\ dispatches = 1
  /\ \E c \in calls : c.op = "trigger_workflow" /\ c.branch = branch_name

\* the verdict resolved in this run for the commit at index i was v
ResolvedAs(i, v) == \E k \in 1..Len(log) : log[k].sha = CommitAt(i) /\ log[k].good = v

\* C32: at every loop-iteration boundary of run_bisection
\* -1 <= good_idx < bad_idx <= len(commits); the commit at good_idx (if any) resolved
\* GOOD in this run and the commit at bad_idx (if any) resolved BAD in this run.
C32_LoopInvariant ==
  pc = "loop" =>
    /\ -1 <= good_idx
    /\ good_idx < bad_idx
    /\ bad_idx <= Len(commits)
    /\ good_idx >= 0 => ResolvedAs(good_idx, "True")
    /\ bad_idx < Len(commits) => ResolvedAs(bad_idx, "False")

\* a boundary with both ends resolved, one of them by a fresh test
C32_Witness ==
  /\ pc = "loop"
  /\ good_idx = 0
  /\ bad_idx = 1
  /\ Len(commits) = 3
  /\ \E k \in 1..Len(log) : log[k].src = "test"

\* a midpoint is selected and its verdict is not applied yet
MidpointInHand == pc \in EvalPcs \cup {"narrow"}

\* C33: the midpoint is floor((good_idx + bad_idx) / 2), lies strictly between
\* good_idx and bad_idx and is an index of commits; applying its verdict makes
\* bad_idx - good_idx strictly smaller, so the loop ends after finitely many
\* evaluations; for three commits with c1 BAD the order is c1 then c0.
C33_MidpointProgress ==
  /\ MidpointInHand =>
       /\ 2 * mid_idx <= good_idx + bad_idx
       /\ good_idx + bad_idx < 2 * mid_idx + 2
       /\ good_idx < mid_idx
       /\ mid_idx < bad_idx
       /\ 0 <= mid_idx
       /\ mid_idx < Len(commits)
       /\ snap.good = good_idx /\ snap.bad = bad_idx
  /\ pc \in {"update_state", "save", "loop"} /\ Len(log) >= 1 =>
       /\ bad_idx - good_idx < snap.bad - snap.good
       /\ bad_idx - good_idx >= 1
  /\ pc \in RunningPcs \ {"run_bisection"} =>
       Len(log) + (bad_idx - good_idx) <= Len(commits) + 1
  /\ Len(commits) = 3 /\ Len(log) >= 1 =>
       /\ log[1].sha = "c1"
       /\ log[1].good = "False" /\ Len(log) >= 2 => log[2].sha = "c0"
       /\ log[1].good = "False" /\ Len(log) = 1 /\ MidpointInHand =>
            CommitAt(mid_idx) = "c0"

\* three commits, c1 BAD then c0 GOOD, each by a fresh test
C33_Witness ==
  /\ pc = "loop"
  /\ Len(commits) = 3
  /\ Len(log) = 2
  /\ log[1] = [sha |-> "c1", src |-> "test", good |-> "False"]
  /\ log[2] = [sha |-> "c0", src |-> "test", good |-> "True"]

\* the commit at index i resolved to v in this run and the cache says so
ResolvedAndCached(i, v, status) ==
  /\ ResolvedAs(i, v)
  /\ CommitAt(i) \in DOMAIN state.cache
  /\ state.cache[CommitAt(i)] = status

\* C34: whatever the verdicts, when run_bisection returns commits[i] that commit
\* resolved BAD (cache entry FAIL) and i = 0 or commits[i-1] resolved GOOD (cache entry
\* PASS); when it returns None for a non-empty range the last commit resolved GOOD.
C34_ResultIsBoundary ==
  pc = "returned" /\ Len(commits) >= 1 =>
    IF result = "None"
      THEN ResolvedAndCached(Len(commits) - 1, "True", "PASS")
      ELSE /\ \E i \in 0..(Len(commits) - 1) : CommitAt(i) = result
           /\ ResolvedAndCached(IndexOf(result), "False", "FAIL")
           /\ IndexOf(result) = 0
                \/ ResolvedAndCached(IndexOf(result) - 1, "True", "PASS")

\* the last of three commits is returned after c1 resolved GOOD by a fresh test
C34_Witness ==
  /\ pc = "returned"
  /\ Len(commits) = 3
  /\ result = "c2"
  /\ log[1] = [sha |-> "c1", src |-> "test", good |-> "True"]

\* run_bisection is running or has just exited, and is not between the assignments
\* of _update_state and its save
OutsideUpdate ==
  \/ pc \in (RunningPcs \ {"run_bisection", "save"}) \cup {"returned"}
  \/ pc = "raised" /\ err \in FatalErrors \cup {CleanupError}

\* C35: once a non-cached evaluation is complete, the state last saved equals the
\* in-memory state at every loop boundary and when run_bisection returns or raises a
\* fatal error; the in-memory state changes only right before a save.
C35_SavedEqualsMemory ==
  /\ OutsideUpdate /\ saves >= 1 => file = Save(state)
  /\ OutsideUpdate /\ saves = 0 => state.cache = startCache
  /\ pc \in {"update_state", "save"} =>
       saves = Cardinality(DOMAIN state.cache \ DOMAIN startCache)
                 - (IF pc = "save" THEN 1 ELSE 0)

\* a fatal error after a verdict was saved
C35_Witness ==
  /\ pc = "raised"
  /\ err = PollTimeout
  /\ saves >= 1
  /\ file = Save(state)
  /\ state.cache # startCache

\* the fields of a state other than current_good and current_bad
Identity5(s) ==
  [repo |-> s.repo, workflow |-> s.workflow, job |-> s.job,
   original_start |-> s.original_start, original_end |-> s.original_end]

\* the shorter of the two logs
Common == IF Len(pair.x[1].log) <= Len(pair.x[2].log)
            THEN Len(pair.x[1].log) ELSE Len(pair.x[2].log)

\* C36: two executions that start from states differing only in current_good and
\* current_bad, with the same cache, commits and provider answers, evaluate the same
\* midpoints in the same order with the same remote operations and end the same way
\* with the same result; repo, workflow, job, original_start and original_end of the
\* state are never modified.
C36_CurrentNotControl ==
  pair # NoPair =>
    /\ \A k \in 1..Common : pair.x[1].log[k] = pair.x[2].log[k]
    /\ Len(pair.x[1].log) = Len(pair.x[2].log) =>
         /\ pair.x[1].state.cache = pair.x[2].state.cache
         /\ pair.x[1].good_idx = pair.x[2].good_idx
         /\ pair.x[1].bad_idx = pair.x[2].bad_idx
    /\ pair.x[1].at # "loop" /\ pair.x[2].at # "loop" =>
         /\ pair.x[1].at = pair.x[2].at
         /\ pair.x[1].result = pair.x[2].result
         /\ pair.x[1].log = pair.x[2].log
    /\ \A i \in 1..2 : Identity5(pair.x[i].state) = Identity5(pair.start[i])

\* both executions returned a culprit after a fresh test, from states that differ in
\* current_good and current_bad
C36_Witness ==
  /\ pair # NoPair
  /\ pair.start[1].current_bad # pair.start[2].current_bad
  /\ pair.start[1].current_good # pair.start[2].current_good
  /\ pair.x[1].at = "returned" /\ pair.x[2].at = "returned"
  /\ pair.x[1].result = "c1"
  /\ Len(pair.x[1].log) = 2
  /\ pair.x[1].log[1].ops = <<"check_existing_run", "execute_test">>

\* no step of this invocation has raised, inside the provider client or outside
NormalOperation == err = NoErr /\ ~check_failed

\* run_bisection is between two midpoint evaluations, before the first, or returned
BetweenEvaluations ==
  pc \in {"run_bisection", "loop", "check_existing_run", "execute_test", "narrow",
          "update_state", "save", "returned"}

\* C37: when no step raises, create_branch is called at most once per midpoint
\* evaluation, before any attempt; every attempt dispatches on that one branch, which
\* exists while _test_commit runs; and no branch exists while run_bisection is between
\* midpoint evaluations or has returned.
C37_OneBranchAtATime ==
  NormalOperation =>
    /\ BetweenEvaluations => branch = "absent"
    /\ pc \in {"create_branch", "wait_for_branch"} => attempt = 0 /\ dispatches = 0
    /\ pc \in TryPcs \cup {"finally", "delete_branch"} =>
         /\ branch = "visible"
         /\ branch_name = BranchName(CommitAt(mid_idx), runNo)
         /\ \A c \in calls : c.op = "trigger_workflow" => c.branch = branch_name
         /\ Cardinality({c \in calls : c.op = "trigger_workflow"}) = dispatches

\* two attempts were dispatched on the branch the tester created, and it is deleted
C37_Witness ==
  /\ NormalOperation
  /\ pc = "narrow"
  /\ created
  /\ dispatches = 2
  /\ branch = "absent"

\* _test_commit has returned a verdict or raised the job-not-found error on a
\* completed run, with no retry and no wrapper
FreshOutcomeInHand ==
  /\ pc = "finally"
  /\ ret # "None" \/ err = JobNotFound
  /\ retries = 0
  /\ ~has_wrapper
  /\ run_conclusion # "None"

\* what _check_existing_run does with the run _test_commit has just handled
SameAsExistingRun ==
  IF job /\ run_target = "missing"
    THEN err = JobNotFound
    ELSE err = NoErr /\ ret = ExistingRunVerdict(run_conclusion, run_target)

\* C38: with retries = 0 and no wrapper, _test_commit ends on a completed run as
\* _check_existing_run ends on the same run conclusion, job list and requested job:
\* with the same verdict, or with the job-not-found error.
C38_FreshEqualsExisting == FreshOutcomeInHand => SameAsExistingRun

\* execution i is inside the try or the finally clause on a branch it created
UsingOwnBranch(i) ==
  /\ overlap.x[i].at \in {"test", "finally"}
  /\ overlap.x[i].created

\* C39: of two overlapping test executions each has a branch name of its own; every
\* trigger_workflow and every delete_branch of an execution hits a branch that
\* execution created; and the branch an execution created is there for as long as the
\* execution is inside the try or the finally clause, whatever the other one does.
C39_NoCrossBranchUse ==
  overlap # NoOverlap =>
    /\ \A o \in overlap.ops : o.creator = o.by
    /\ \A i \in 1..2 : UsingOwnBranch(i) => CreatorOf(overlap.x[i].name) = i
    /\ overlap.x[1].at # "idle" /\ overlap.x[2].at # "idle" =>
         overlap.x[1].name # overlap.x[2].name

\* execution 1 has dispatched on its branch and is still testing a commit for which
\* execution 2 has meanwhile dispatched on, and deleted, a branch of its own
C39_Witness ==
  /\ overlap # NoOverlap
  /\ UsingOwnBranch(1)
  /\ overlap.x[1].at = "test"
  /\ \E o \in overlap.ops :
       o.op = "trigger_workflow" /\ o.by = 1 /\ o.name = overlap.x[1].name
  /\ \E o \in overlap.ops :
       /\ o.op = "trigger_workflow" /\ o.by = 2
       /\ o.name.sha = overlap.x[1].name.sha
       /\ \E d \in overlap.ops : d.op = "delete_branch" /\ d.by = 2 /\ d.name = o.name
====
